---- MODULE Spec2Model ----
(***************************************************************************)
(* A model of github.com/xonyagar/id3: the facade id3.New and its unified  *)
(* accessors (src/id3.go), the fixed-layout reader v1.New                  *)
(* (src/unnamed/part_002, the v1 package id3.go compiles against), the     *)
(* three framed-edition parsers v22.New (src/v22/v22.go), v23.New          *)
(* (src/unnamed/part_003) and v24.New (src/v24/v24.go) with their frame    *)
(* decoders and accessors, and the text decoder lib.ToUTF8                 *)
(* (src/lib/encoding.go).                                                  *)
(*                                                                         *)
(* Bytes are integers 0..255.  A Go string is the sequence of its bytes    *)
(* (UTF-8), a []byte is a sequence of bytes, and Go's 0-based half-open    *)
(* slice b[lo:hi] is Slice(b, lo, hi).  An error is the chain of messages  *)
(* from the outermost wrapper to the innermost cause; <<>> is the nil      *)
(* error.  A run-time panic (index or slice bounds out of range) is an     *)
(* outcome of its own: it is neither a returned value nor a returned       *)
(* error.                                                                  *)
(***************************************************************************)
EXTENDS Integers, Sequences, FiniteSets, TLC

VARIABLES
    file,        \* the bytes of the io.ReadSeeker handed to the parsers
    off,         \* the source's current read position
    pc,          \* where control is
    caller,      \* "id3.New" when the facade drives the parsers, "direct" otherwise
    t,           \* the running parser's consumed-byte counter
    framesSize,  \* the running parser's declared frame-area size (header bytes 6..9)
    flags,       \* the running parser's header flag byte (header byte 5)
    frames,      \* the running parser's accumulated frame sequence
    ret,         \* what the last parser call returned: [tag, err]
    calls,       \* the parser attempts started so far, in order
    id3,         \* the Unified Tag: [V1, V22, V23, V24]
    result,      \* what id3.New returned: [returned, tag, err]
    seekFail,    \* which of the source's Seek(0, 0) calls fails (0: none)
    out          \* what the last unified accessor call returned

vars ==
    <<file, off, pc, caller, t, framesSize, flags, frames, ret, calls, id3, result,
      seekFail, out>>

----------------------------------------------------------------------------
(* Bounds of the model.                                                    *)

\* The longest frame body a source carries.
MaxBody == 3

----------------------------------------------------------------------------
(* Go values.                                                              *)

Min(a, b) == IF a < b THEN a ELSE b

\* b[lo:hi] of a []byte or string b, for 0 <= lo <= hi <= len(b).
Slice(b, lo, hi) == SubSeq(b, lo + 1, hi)

\* Whether b[lo:hi] is within bounds (Go panics otherwise).
SliceOK(b, lo, hi) == 0 <= lo /\ lo <= hi /\ hi <= Len(b)

\* make([]byte, n): n zero bytes.
Zeros(n) == [i \in 1..n |-> 0]

\* The nil error, and an absent (nil) tag pointer.
NilErr == <<>>
Nil == [present |-> FALSE]

\* errors.Is(err, target): target is err or a cause err wraps.
ErrorsIs(err, target) == \E i \in 1..Len(err) : err[i] = target

\* fmt.Errorf(msg + ": %w", err)
Wrap(msg, err) == <<msg>> \o err

\* f.Read(buf) with len(buf) = k on a file-like source: the bytes left, at most k,
\* the rest of buf staying zero; io.EOF when k > 0 and nothing is left.
Read(data, pos, k) ==
    IF k = 0 THEN [n |-> 0, err |-> NilErr, buf |-> <<>>]
    ELSE IF pos >= Len(data) THEN [n |-> 0, err |-> <<"EOF">>, buf |-> Zeros(k)]
    ELSE LET n == Min(k, Len(data) - pos)
         IN  [n |-> n, err |-> NilErr,
              buf |-> [i \in 1..k |-> IF i <= n THEN data[pos + i] ELSE 0]]

\* The synch-safe reading: big-endian, the low 7 bits of every byte.
RECURSIVE ByteToIntSynchSafe(_)
ByteToIntSynchSafe(b) ==
    IF b = <<>> THEN 0
    ELSE ByteToIntSynchSafe(SubSeq(b, 1, Len(b) - 1)) * 128 + (b[Len(b)] % 128)

\* lib.ByteToInt: big-endian, all 8 bits of every byte.
RECURSIVE ByteToInt(_)
ByteToInt(b) ==
    IF b = <<>> THEN 0
    ELSE ByteToInt(SubSeq(b, 1, Len(b) - 1)) * 256 + b[Len(b)]

\* A regexp that also takes lowercase letters.
MatchFrameIDAnyCase(frameID) ==
    /\ Len(frameID) > 0
    /\ \A i \in 1..Len(frameID) : frameID[i] \in (48..57) \cup (65..90) \cup (97..122)

\* regexp `^[0-9A-Z]+$` on a frame identifier.
MatchFrameID(frameID) ==
    /\ Len(frameID) > 0
    /\ \A i \in 1..Len(frameID) : frameID[i] \in (48..57) \cup (65..90)

----------------------------------------------------------------------------
(* lib: the text decoder.                                                  *)

\* lib.Encodings, indexed by the selector byte + 1.
Encodings ==
    << [Title |-> "ISO-8859-1", Size |-> 1],
       [Title |-> "UTF-16", Size |-> 2],
       [Title |-> "UTF-16BE", Size |-> 2],
       [Title |-> "UTF-8", Size |-> 1] >>

\* utf8.EncodeRune for a rune below 2^16 (string(rune) gives the same bytes).
EncodeRune(r) ==
    IF r < 128 THEN <<r>>
    ELSE IF r < 2048 THEN <<192 + (r \div 64), 128 + (r % 64)>>
    ELSE <<224 + (r \div 4096), 128 + ((r \div 64) % 64), 128 + (r % 64)>>

\* utf16.Decode of one code unit: a lone surrogate becomes U+FFFD.
DecodeUnit(u) == IF u >= 55296 /\ u <= 57343 THEN 65533 ELSE u

\* The ISO-8859-1 branch of lib.ToUTF8: one rune per byte.
RECURSIVE Latin1(_)
Latin1(data) ==
    IF data = <<>> THEN <<>>
    ELSE EncodeRune(data[1]) \o Latin1(Tail(data))

\* The loop of the UTF-16 branch: for ; i < lb; i += 2, low byte first.
RECURSIVE UTF16Loop(_, _, _)
UTF16Loop(data, i, lb) ==
    IF i < lb
    THEN EncodeRune(DecodeUnit(data[i + 1] + data[i + 2] * 256)) \o UTF16Loop(data, i + 2, lb)
    ELSE <<>>

\* The start and the limit of the UTF-16 loop: lb := len(data); i := 0;
\* if lb%2 != 0 && data[i] == 0 { i++ } else { lb-- }.
UTF16RangeUntrimmed(data) ==
    LET lb == Len(data)
        skip == (lb % 2 # 0) /\ data[1] = 0
    IN  [i |-> IF skip THEN 1 ELSE 0, lb |-> lb]

UTF16Range(data) ==
    LET lb == Len(data)
        skip == (lb % 2 # 0) /\ data[1] = 0
    IN  [i |-> IF skip THEN 1 ELSE 0, lb |-> IF skip THEN lb ELSE lb - 1]

\* The 0-based indexes of data the UTF-16 loop reads: data[i] and data[i+1] each turn.
RECURSIVE UTF16LoopReads(_, _)
UTF16LoopReads(i, lb) ==
    IF i < lb THEN {i, i + 1} \cup UTF16LoopReads(i + 2, lb) ELSE {}

\* The 0-based indexes of data that lib.ToUTF8(data, enc) reads: every byte in the
\* range loop and in string(data); in the UTF-16 branch data[0] when the length is
\* odd, and what the loop reads.
ToUTF8Reads(data, enc) ==
    CASE enc.Title = "UTF-16" ->
            (IF Len(data) % 2 # 0 THEN {0} ELSE {})
                \cup UTF16LoopReads(UTF16Range(data).i, UTF16Range(data).lb)
      [] OTHER -> 0..(Len(data) - 1)

\* lib.ToUTF8(data, enc).
ToUTF8(data, enc) ==
    CASE enc.Title = "ISO-8859-1" -> Latin1(data)
      [] enc.Title = "UTF-16" -> UTF16Loop(data, UTF16Range(data).i, UTF16Range(data).lb)
      [] OTHER -> data

----------------------------------------------------------------------------
(* The declared-frame registries.                                          *)

\* v22.DeclaredFrames: the declared-frame table, identifier (as bytes) -> semantic type.
v22DeclaredFrames ==
    LET
        \* PIC
        AttachedPicture == {<<80,73,67>>}
        \* COM
        Comments == {<<67,79,77>>}
        \* IPL
        InvolvedPeopleList == {<<73,80,76>>}
        \* TAL TBP TCM TCO TCR TDA TDY TEN TFT TIM TKE TLA TLE TMT TOA TOF TOL TOR TOT TP1 TP2
        \* TP3 TP4 TPA TPB TRC TRD TRK TSI TSS TT1 TT2 TT3 TXT TYE
        TextInformation == {<<84,65,76>>, <<84,66,80>>, <<84,67,77>>, <<84,67,79>>,
            <<84,67,82>>, <<84,68,65>>, <<84,68,89>>, <<84,69,78>>, <<84,70,84>>, <<84,73,77>>,
            <<84,75,69>>, <<84,76,65>>, <<84,76,69>>, <<84,77,84>>, <<84,79,65>>, <<84,79,70>>,
            <<84,79,76>>, <<84,79,82>>, <<84,79,84>>, <<84,80,49>>, <<84,80,50>>, <<84,80,51>>,
            <<84,80,52>>, <<84,80,65>>, <<84,80,66>>, <<84,82,67>>, <<84,82,68>>, <<84,82,75>>,
            <<84,83,73>>, <<84,83,83>>, <<84,84,49>>, <<84,84,50>>, <<84,84,51>>, <<84,88,84>>,
            <<84,89,69>>}
        \* WAF WAR WAS WCM WCP WPB
        URLLink == {<<87,65,70>>, <<87,65,82>>, <<87,65,83>>, <<87,67,77>>, <<87,67,80>>,
            <<87,80,66>>}
        \* UFI
        UniqueFileIdentifier == {<<85,70,73>>}
        \* BUF CNT CRA CRM ETC EQU GEO LNK MCI MLL POP REV RVA SLT STC TXX WXX
        Unknown == {<<66,85,70>>, <<67,78,84>>, <<67,82,65>>, <<67,82,77>>, <<69,84,67>>,
            <<69,81,85>>, <<71,69,79>>, <<76,78,75>>, <<77,67,73>>, <<77,76,76>>, <<80,79,80>>,
            <<82,69,86>>, <<82,86,65>>, <<83,76,84>>, <<83,84,67>>, <<84,88,88>>, <<87,88,88>>}
        \* ULT
        UnsychronisedLyricsOrTextTranscription == {<<85,76,84>>}
        \* TCP
        iTunesCompilationFlag == {<<84,67,80>>}
    IN  [id \in AttachedPicture \cup
                Comments \cup
                InvolvedPeopleList \cup
                TextInformation \cup
                URLLink \cup
                UniqueFileIdentifier \cup
                Unknown \cup
                UnsychronisedLyricsOrTextTranscription \cup
                iTunesCompilationFlag |->
            CASE id \in AttachedPicture -> "TypeAttachedPicture"
              [] id \in Comments -> "TypeComments"
              [] id \in InvolvedPeopleList -> "TypeInvolvedPeopleList"
              [] id \in TextInformation -> "TypeTextInformation"
              [] id \in URLLink -> "TypeURLLink"
              [] id \in UniqueFileIdentifier -> "TypeUniqueFileIdentifier"
              [] id \in Unknown -> "TypeUnknown"
              [] id \in UnsychronisedLyricsOrTextTranscription -> "TypeUnsychronisedLyricsOrTextTranscription"
              [] id \in iTunesCompilationFlag -> "TypeiTunesCompilationFlag"]

\* v23.DeclaredFrames: the declared-frame table, identifier (as bytes) -> semantic type.
v23DeclaredFrames ==
    LET
        \* APIC
        AttachedPicture == {<<65,80,73,67>>}
        \* COMM
        Comments == {<<67,79,77,77>>}
        \* USER
        TermOfUse == {<<85,83,69,82>>}
        \* TALB TBPM TCOM TCON TCOP TDAT TDLY TENC TEXT TFLT TIME TIT1 TIT2 TIT3 TKEY TLAN TLEN
        \* TMED TOAL TOFN TOLY TOPE TORY TOWN TPE1 TPE2 TPE3 TPE4 TPOS TPUB TRCK TRDA TRSN TRSO
        \* TSIZ TSRC TSSE TYER
        TextInformation == {<<84,65,76,66>>, <<84,66,80,77>>, <<84,67,79,77>>, <<84,67,79,78>>,
            <<84,67,79,80>>, <<84,68,65,84>>, <<84,68,76,89>>, <<84,69,78,67>>,
            <<84,69,88,84>>, <<84,70,76,84>>, <<84,73,77,69>>, <<84,73,84,49>>,
            <<84,73,84,50>>, <<84,73,84,51>>, <<84,75,69,89>>, <<84,76,65,78>>,
            <<84,76,69,78>>, <<84,77,69,68>>, <<84,79,65,76>>, <<84,79,70,78>>,
            <<84,79,76,89>>, <<84,79,80,69>>, <<84,79,82,89>>, <<84,79,87,78>>,
            <<84,80,69,49>>, <<84,80,69,50>>, <<84,80,69,51>>, <<84,80,69,52>>,
            <<84,80,79,83>>, <<84,80,85,66>>, <<84,82,67,75>>, <<84,82,68,65>>,
            <<84,82,83,78>>, <<84,82,83,79>>, <<84,83,73,90>>, <<84,83,82,67>>,
            <<84,83,83,69>>, <<84,89,69,82>>}
        \* WCOM WCOP WOAF WOAR WOAS WORS WPAY WPUB WFED
        URLLink == {<<87,67,79,77>>, <<87,67,79,80>>, <<87,79,65,70>>, <<87,79,65,82>>,
            <<87,79,65,83>>, <<87,79,82,83>>, <<87,80,65,89>>, <<87,80,85,66>>, <<87,70,69,68>>}
        \* AENC COMR ENCR EQUA ETCO GEOB GRID IPLS LINK MCDI MLLT OWNE PRIV PCNT POPM POSS RBUF
        \* RVAD RVRB SYLT SYTC UFID TCMP
        Unknown == {<<65,69,78,67>>, <<67,79,77,82>>, <<69,78,67,82>>, <<69,81,85,65>>,
            <<69,84,67,79>>, <<71,69,79,66>>, <<71,82,73,68>>, <<73,80,76,83>>,
            <<76,73,78,75>>, <<77,67,68,73>>, <<77,76,76,84>>, <<79,87,78,69>>,
            <<80,82,73,86>>, <<80,67,78,84>>, <<80,79,80,77>>, <<80,79,83,83>>,
            <<82,66,85,70>>, <<82,86,65,68>>, <<82,86,82,66>>, <<83,89,76,84>>,
            <<83,89,84,67>>, <<85,70,73,68>>, <<84,67,77,80>>}
        \* USLT
        UnsychronisedLyricsOrTextTranscription == {<<85,83,76,84>>}
        \* TXXX
        UserDefinedTextInformation == {<<84,88,88,88>>}
        \* WXXX
        UserDefinedURLLink == {<<87,88,88,88>>}
    IN  [id \in AttachedPicture \cup
                Comments \cup
                TermOfUse \cup
                TextInformation \cup
                URLLink \cup
                Unknown \cup
                UnsychronisedLyricsOrTextTranscription \cup
                UserDefinedTextInformation \cup
                UserDefinedURLLink |->
            CASE id \in AttachedPicture -> "TypeAttachedPicture"
              [] id \in Comments -> "TypeComments"
              [] id \in TermOfUse -> "TypeTermOfUse"
              [] id \in TextInformation -> "TypeTextInformation"
              [] id \in URLLink -> "TypeURLLink"
              [] id \in Unknown -> "TypeUnknown"
              [] id \in UnsychronisedLyricsOrTextTranscription -> "TypeUnsychronisedLyricsOrTextTranscription"
              [] id \in UserDefinedTextInformation -> "TypeUserDefinedTextInformation"
              [] id \in UserDefinedURLLink -> "TypeUserDefinedURLLink"]

\* v24.DeclaredFrames: the declared-frame table, identifier (as bytes) -> semantic type.
v24DeclaredFrames ==
    LET
        \* APIC
        AttachedPicture == {<<65,80,73,67>>}
        \* POPM
        Popularimeter == {<<80,79,80,77>>}
        \* TALB TBPM TCOM TCON TCOP TDEN TDLY TDOR TDRC TDRL TDTG TENC TEXT TFLT TIPL TIT1 TIT2
        \* TIT3 TKEY TLAN TLEN TMCL TMED TMOO TOAL TOFN TOLY TOPE TOWN TPE1 TPE2 TPE3 TPE4 TPOS
        \* TPRO TPUB TRCK TRSN TRSO TSOA TSOP TSOT TSRC TSSE TSST
        TextInformation == {<<84,65,76,66>>, <<84,66,80,77>>, <<84,67,79,77>>, <<84,67,79,78>>,
            <<84,67,79,80>>, <<84,68,69,78>>, <<84,68,76,89>>, <<84,68,79,82>>,
            <<84,68,82,67>>, <<84,68,82,76>>, <<84,68,84,71>>, <<84,69,78,67>>,
            <<84,69,88,84>>, <<84,70,76,84>>, <<84,73,80,76>>, <<84,73,84,49>>,
            <<84,73,84,50>>, <<84,73,84,51>>, <<84,75,69,89>>, <<84,76,65,78>>,
            <<84,76,69,78>>, <<84,77,67,76>>, <<84,77,69,68>>, <<84,77,79,79>>,
            <<84,79,65,76>>, <<84,79,70,78>>, <<84,79,76,89>>, <<84,79,80,69>>,
            <<84,79,87,78>>, <<84,80,69,49>>, <<84,80,69,50>>, <<84,80,69,51>>,
            <<84,80,69,52>>, <<84,80,79,83>>, <<84,80,82,79>>, <<84,80,85,66>>,
            <<84,82,67,75>>, <<84,82,83,78>>, <<84,82,83,79>>, <<84,83,79,65>>,
            <<84,83,79,80>>, <<84,83,79,84>>, <<84,83,82,67>>, <<84,83,83,69>>, <<84,83,83,84>>}
        \* AENC ASPI COMM COMR ENCR EQU2 ETCO GEOB GRID LINK MCDI MLLT OWNE PRIV PCNT POSS RBUF
        \* RVA2 RVRB SEEK SIGN SYLT SYTC UFID USER USLT WCOM WCOP WOAF WOAR WOAS WORS WPAY WPUB
        \* WXXX TCMP
        Unknown == {<<65,69,78,67>>, <<65,83,80,73>>, <<67,79,77,77>>, <<67,79,77,82>>,
            <<69,78,67,82>>, <<69,81,85,50>>, <<69,84,67,79>>, <<71,69,79,66>>,
            <<71,82,73,68>>, <<76,73,78,75>>, <<77,67,68,73>>, <<77,76,76,84>>,
            <<79,87,78,69>>, <<80,82,73,86>>, <<80,67,78,84>>, <<80,79,83,83>>,
            <<82,66,85,70>>, <<82,86,65,50>>, <<82,86,82,66>>, <<83,69,69,75>>,
            <<83,73,71,78>>, <<83,89,76,84>>, <<83,89,84,67>>, <<85,70,73,68>>,
            <<85,83,69,82>>, <<85,83,76,84>>, <<87,67,79,77>>, <<87,67,79,80>>,
            <<87,79,65,70>>, <<87,79,65,82>>, <<87,79,65,83>>, <<87,79,82,83>>,
            <<87,80,65,89>>, <<87,80,85,66>>, <<87,88,88,88>>, <<84,67,77,80>>}
        \* TXXX
        UserDefinedTextInformation == {<<84,88,88,88>>}
    IN  [id \in AttachedPicture \cup
                Popularimeter \cup
                TextInformation \cup
                Unknown \cup
                UserDefinedTextInformation |->
            CASE id \in AttachedPicture -> "TypeAttachedPicture"
              [] id \in Popularimeter -> "TypePopularimeter"
              [] id \in TextInformation -> "TypeTextInformation"
              [] id \in Unknown -> "TypeUnknown"
              [] id \in UserDefinedTextInformation -> "TypeUserDefinedTextInformation"]

----------------------------------------------------------------------------
(* The frame decoders: the switch on the declared type inside each New.    *)

\* A decoder's outcome: a frame to append, or a panic.
Panic == [panic |-> TRUE]
Decoded(frame) == [panic |-> FALSE, frame |-> frame]

\* lib.Encodings[frameBody[0]] is within range.
EncodingOK(frameBody) == Len(frameBody) > 0 /\ frameBody[1] < Len(Encodings)

\* lib.Encodings[frameBody[0]]
EncodingOf(frameBody) == Encodings[frameBody[1] + 1]

\* for i := start; i < limit; i += step { if frameBody[i] == 0 { ... break } }:
\* the index the loop stops at, -1 when it runs out, -2 when frameBody[i] is out of range.
RECURSIVE ScanZero(_, _, _, _)
ScanZero(frameBody, i, step, limit) ==
    IF i >= limit THEN -1
    ELSE IF i >= Len(frameBody) THEN -2
    ELSE IF frameBody[i + 1] = 0 THEN i
    ELSE ScanZero(frameBody, i + step, step, limit)

\* The description/value split shared by the decoders: scan from start in steps of the
\* encoding's size; at the first zero byte, i, the head is frameBody[start:i] and the
\* rest is frameBody[i+size:]; without one, nothing is assigned.
SplitAtZero(frameBody, start, size) ==
    LET i == ScanZero(frameBody, start, size, Len(frameBody))
    IN  IF i < 0 THEN [panic |-> FALSE, found |-> FALSE, head |-> <<>>, rest |-> <<>>]
        ELSE IF ~SliceOK(frameBody, i + size, Len(frameBody))
        THEN [panic |-> TRUE, found |-> TRUE, head |-> <<>>, rest |-> <<>>]
        ELSE [panic |-> FALSE, found |-> TRUE,
              head |-> Slice(frameBody, start, i),
              rest |-> Slice(frameBody, i + size, Len(frameBody))]

\* b&m == m for a one-bit mask m.
Bit(b, m) == (b \div m) % 2 = 1

\* An unknown frame that drops the body.
UnknownFrameNoData(base, frameBody) == [kind |-> "UnknownFrame", base |-> base, data |-> <<>>]

UnknownFrame(base, frameBody) == [kind |-> "UnknownFrame", base |-> base, data |-> frameBody]

URLLinkFrame(base, frameBody) == [kind |-> "URLLinkFrame", base |-> base, url |-> frameBody]

\* case TypeTextInformation (the same in the three editions).
DecodeTextInformation(base, frameBody) ==
    IF ~EncodingOK(frameBody) THEN Panic
    ELSE Decoded([kind |-> "TextInformationFrame", base |-> base,
                  encoding |-> EncodingOf(frameBody),
                  text |-> ToUTF8(Slice(frameBody, 1, Len(frameBody)), EncodingOf(frameBody))])

\* case TypeUserDefinedTextInformation (v2.3 and v2.4).
DecodeUserDefinedText(base, frameBody) ==
    IF ~EncodingOK(frameBody) THEN Panic
    ELSE LET enc == EncodingOf(frameBody)
             s == SplitAtZero(frameBody, 1, enc.Size)
         IN  IF s.panic THEN Panic
             ELSE Decoded([kind |-> "UserDefinedTextInformationFrame", base |-> base,
                           encoding |-> enc,
                           description |-> ToUTF8(s.head, enc),
                           value |-> ToUTF8(s.rest, enc)])

\* case TypeUserDefinedURLLink (v2.3 only): the URL is not transcoded.
DecodeUserDefinedURL(base, frameBody) ==
    IF ~EncodingOK(frameBody) THEN Panic
    ELSE LET enc == EncodingOf(frameBody)
             s == SplitAtZero(frameBody, 1, enc.Size)
         IN  IF s.panic THEN Panic
             ELSE Decoded([kind |-> "UserDefinedURLLinkFrame", base |-> base,
                           encoding |-> enc,
                           description |-> ToUTF8(s.head, enc),
                           url |-> s.rest])

\* The same decoder taking the byte after the language for a separator: the scan
\* and the description start at byte 5.
DecodeLangTextAfterSeparator(kind, base, frameBody) ==
    IF ~EncodingOK(frameBody) \/ ~SliceOK(frameBody, 1, 4) THEN Panic
    ELSE LET enc == EncodingOf(frameBody)
             s == SplitAtZero(frameBody, 5, enc.Size)
         IN  IF s.panic THEN Panic
             ELSE Decoded([kind |-> kind, base |-> base,
                           textEncoding |-> enc,
                           language |-> Slice(frameBody, 1, 4),
                           description |-> ToUTF8(s.head, enc),
                           text |-> ToUTF8(s.rest, enc)])

\* case TypeComments and case TypeUnsychronisedLyricsOrTextTranscription: encoding,
\* language frameBody[1:4], then the split from byte 4.
DecodeLangText(kind, base, frameBody) ==
    IF ~EncodingOK(frameBody) \/ ~SliceOK(frameBody, 1, 4) THEN Panic
    ELSE LET enc == EncodingOf(frameBody)
             s == SplitAtZero(frameBody, 4, enc.Size)
         IN  IF s.panic THEN Panic
             ELSE Decoded([kind |-> kind, base |-> base,
                           textEncoding |-> enc,
                           language |-> Slice(frameBody, 1, 4),
                           description |-> ToUTF8(s.head, enc),
                           text |-> ToUTF8(s.rest, enc)])

\* case TypeTermOfUse (v2.3).
DecodeTermOfUse(base, frameBody) ==
    IF ~EncodingOK(frameBody) \/ ~SliceOK(frameBody, 1, 4) THEN Panic
    ELSE Decoded([kind |-> "TermOfUseFrame", base |-> base,
                  textEncoding |-> EncodingOf(frameBody),
                  language |-> Slice(frameBody, 1, 4),
                  theActualText |-> ToUTF8(Slice(frameBody, 4, Len(frameBody)),
                                           EncodingOf(frameBody))])

\* case TypeAttachedPicture of v2.2: a 3-byte image format, the picture type at byte 4,
\* then the description/data split from byte 5.
DecodePIC(base, frameBody) ==
    IF ~EncodingOK(frameBody) \/ ~SliceOK(frameBody, 1, 4) \/ Len(frameBody) < 5 THEN Panic
    ELSE LET enc == EncodingOf(frameBody)
             s == SplitAtZero(frameBody, 5, enc.Size)
         IN  IF s.panic THEN Panic
             ELSE Decoded([kind |-> "AttachedPictureFrame", base |-> base,
                           textEncoding |-> enc,
                           mimeType |-> Slice(frameBody, 1, 4),
                           pictureType |-> frameBody[5],
                           description |-> ToUTF8(s.head, enc),
                           pictureData |-> s.rest])

\* case TypeAttachedPicture of v2.3 and v2.4: the MIME string up to the first zero byte
\* i, the picture type at i+1, then the description/data split from i+2.
DecodeAPIC(base, frameBody) ==
    IF ~EncodingOK(frameBody) THEN Panic
    ELSE LET enc == EncodingOf(frameBody)
             i == ScanZero(frameBody, 1, 1, Len(frameBody))
             empty == [kind |-> "AttachedPictureFrame", base |-> base, textEncoding |-> enc,
                       mimeType |-> <<>>, pictureType |-> 0, description |-> <<>>,
                       pictureData |-> <<>>]
         IN  IF i < 0 THEN Decoded(empty)
             ELSE IF i + 1 >= Len(frameBody) THEN Panic
             ELSE LET s == SplitAtZero(frameBody, i + 2, enc.Size)
                  IN  IF s.panic THEN Panic
                      ELSE Decoded([empty EXCEPT !.mimeType = Slice(frameBody, 1, i),
                                                 !.pictureType = frameBody[i + 2],
                                                 !.description = ToUTF8(s.head, enc),
                                                 !.pictureData = s.rest])

\* case TypeiTunesCompilationFlag (v2.2).
DecodeCompilation(base, frameBody) ==
    IF ~EncodingOK(frameBody) THEN Panic
    ELSE Decoded([kind |-> "ItunesCompilationFlagFrame", base |-> base,
                  encoding |-> EncodingOf(frameBody),
                  isPartOfACompilation |-> Len(frameBody) > 1 /\ frameBody[2] = 49])

\* case TypePopularimeter (v2.4): the scan runs to the tag's framesSize, not to the
\* frame's own size.
DecodePopularimeter(base, frameBody, areaSize) ==
    LET i == ScanZero(frameBody, 0, 1, areaSize)
    IN  IF i = -2 THEN Panic
        ELSE IF i = -1
        THEN Decoded([kind |-> "PopularimeterFrame", base |-> base,
                      emailToUser |-> <<>>, rating |-> 0, counter |-> 0])
        ELSE IF i + 1 >= Len(frameBody) THEN Panic
        ELSE Decoded([kind |-> "PopularimeterFrame", base |-> base,
                      emailToUser |-> Slice(frameBody, 0, i),
                      rating |-> frameBody[i + 2],
                      counter |-> ByteToInt(Slice(frameBody, i + 2, Len(frameBody)))])

\* v22.New: the frame built from one identifier and body.
v22Decode(frameID, frameSize, frameBody) ==
    LET base == [id |-> frameID, size |-> frameSize]
        type == IF frameID \in DOMAIN v22DeclaredFrames
                THEN v22DeclaredFrames[frameID] ELSE "undeclared"
    IN  CASE type = "TypeTextInformation" -> DecodeTextInformation(base, frameBody)
          [] type = "TypeURLLink" -> Decoded(URLLinkFrame(base, frameBody))
          [] type = "TypeAttachedPicture" -> DecodePIC(base, frameBody)
          [] type = "TypeUnsychronisedLyricsOrTextTranscription" ->
                DecodeLangText("UnsynchronisedLyricsOrTextTranscriptionFrame", base, frameBody)
          [] type = "TypeComments" -> DecodeLangText("CommentsFrame", base, frameBody)
          [] type = "TypeiTunesCompilationFlag" -> DecodeCompilation(base, frameBody)
          [] OTHER -> Decoded(UnknownFrame(base, frameBody))

\* v23.New: the frame built from one identifier and body.
v23Decode(frameID, frameSize, frameBody) ==
    LET base == [id |-> frameID, size |-> frameSize]
        type == IF frameID \in DOMAIN v23DeclaredFrames
                THEN v23DeclaredFrames[frameID] ELSE "undeclared"
    IN  CASE type = "TypeTextInformation" -> DecodeTextInformation(base, frameBody)
          [] type = "TypeUserDefinedTextInformation" -> DecodeUserDefinedText(base, frameBody)
          [] type = "TypeUserDefinedURLLink" -> DecodeUserDefinedURL(base, frameBody)
          [] type = "TypeURLLink" -> Decoded(URLLinkFrame(base, frameBody))
          [] type = "TypeAttachedPicture" -> DecodeAPIC(base, frameBody)
          [] type = "TypeUnsychronisedLyricsOrTextTranscription" ->
                DecodeLangText("UnsynchronisedLyricsOrTextTranscriptionFrame", base, frameBody)
          [] type = "TypeComments" -> DecodeLangText("CommentsFrame", base, frameBody)
          [] type = "TypeTermOfUse" -> DecodeTermOfUse(base, frameBody)
          [] OTHER -> Decoded(UnknownFrame(base, frameBody))

\* v24.New: the frame built from one frame header and body.
v24Decode(frameHeader, frameSize, frameBody, areaSize) ==
    LET frameID == Slice(frameHeader, 0, 4)
        base == [id |-> frameID, size |-> frameSize,
                 flagTagAlterPreservation |-> Bit(frameHeader[9], 64),
                 flagFileAlterPreservation |-> Bit(frameHeader[9], 32),
                 flagReadOnly |-> Bit(frameHeader[9], 16),
                 flagGroupingIdentity |-> Bit(frameHeader[10], 64),
                 flagCompression |-> Bit(frameHeader[10], 8),
                 flagEncryption |-> Bit(frameHeader[10], 4),
                 flagUnsynchronisation |-> Bit(frameHeader[10], 2),
                 flagDataLengthIndicator |-> Bit(frameHeader[10], 1)]
        type == IF frameID \in DOMAIN v24DeclaredFrames
                THEN v24DeclaredFrames[frameID] ELSE "undeclared"
    IN  CASE type = "TypeTextInformation" -> DecodeTextInformation(base, frameBody)
          [] type = "TypeUserDefinedTextInformation" -> DecodeUserDefinedText(base, frameBody)
          [] type = "TypeURLLink" -> Decoded(URLLinkFrame(base, frameBody))
          [] type = "TypeAttachedPicture" -> DecodeAPIC(base, frameBody)
          [] type = "TypeUnsychronisedLyricsOrTextTranscription" ->
                DecodeLangText("UnsynchronisedLyricsOrTextTranscriptionFrame", base, frameBody)
          [] type = "TypeComments" -> DecodeLangText("CommentsFrame", base, frameBody)
          [] type = "TypeTermOfUse" -> DecodeTermOfUse(base, frameBody)
          [] type = "TypePopularimeter" -> DecodePopularimeter(base, frameBody, areaSize)
          [] OTHER -> Decoded(UnknownFrame(base, frameBody))

----------------------------------------------------------------------------
(* The framed-edition parsers, one call split at its loop: the header read, *)
(* then one loop iteration per step.                                       *)

v22HeaderSize == 10
v22FrameHeaderSize == 6
v23HeaderSize == 10
v23FrameHeaderSize == 10
v24HeaderSize == 10
v24FrameHeaderSize == 10

\* "ID3"
MagicID3 == <<73, 68, 51>>

\* What a parser call returns.
Return(tag, err) == [tag |-> tag, err |-> err]

\* v22ReadHeader without the test of the edition byte.
v22ReadHeaderAnyEdition(data, pos) ==
    LET r == Read(data, pos, v22HeaderSize)
        header == r.buf
    IN  IF r.err # NilErr THEN [done |-> TRUE, off |-> pos + r.n, ret |-> Return(Nil, r.err)]
        ELSE IF r.n # v22HeaderSize
        THEN [done |-> TRUE, off |-> pos + r.n, ret |-> Return(Nil, <<"must read 10 bytes">>)]
        ELSE IF Slice(header, 0, 3) # MagicID3
        THEN [done |-> TRUE, off |-> pos + r.n, ret |-> Return(Nil, <<"v22.ErrTagNotFound">>)]
        ELSE [done |-> FALSE, off |-> pos + r.n,
              framesSize |-> ByteToInt(Slice(header, 6, 10)), flags |-> 0]

\* v22.New up to the loop: read and validate the 10-byte header.
v22ReadHeader(data, pos) ==
    LET r == Read(data, pos, v22HeaderSize)
        header == r.buf
    IN  IF r.err # NilErr THEN [done |-> TRUE, off |-> pos + r.n, ret |-> Return(Nil, r.err)]
        ELSE IF r.n # v22HeaderSize
        THEN [done |-> TRUE, off |-> pos + r.n, ret |-> Return(Nil, <<"must read 10 bytes">>)]
        ELSE IF Slice(header, 0, 3) # MagicID3 \/ header[4] # 2
        THEN [done |-> TRUE, off |-> pos + r.n, ret |-> Return(Nil, <<"v22.ErrTagNotFound">>)]
        ELSE [done |-> FALSE, off |-> pos + r.n,
              framesSize |-> ByteToInt(Slice(header, 6, 10)), flags |-> 0]

\* One iteration of v22.New's loop body, entered with tt < framesSize.
v22Iterate(data, pos, tt, frs) ==
    LET rh == Read(data, pos, v22FrameHeaderSize)
        frameHeader == rh.buf
        frameID == Slice(frameHeader, 0, 3)
        frameSize == ByteToInt(Slice(frameHeader, 3, 6))
        rb == Read(data, pos + rh.n, frameSize)
        d == v22Decode(frameID, frameSize, rb.buf)
        at == [off |-> pos + rh.n, t |-> tt + rh.n, frames |-> frs, err |-> NilErr]
        after == [at EXCEPT !.off = @ + rb.n, !.t = @ + rb.n]
    IN  IF rh.err # NilErr
        THEN [status |-> "error"] @@ [at EXCEPT !.t = tt, !.err = rh.err]
        ELSE IF ~MatchFrameID(frameID)
        THEN IF frameHeader[1] = 0
             THEN [status |-> "break"] @@ at
             ELSE [status |-> "error"] @@ [at EXCEPT !.err = <<"error on reading frames">>]
        ELSE IF rb.err # NilErr
        THEN [status |-> "error"] @@ [at EXCEPT !.err = rb.err]
        ELSE IF d.panic THEN [status |-> "panic"] @@ after
        ELSE [status |-> "continue"] @@ [after EXCEPT !.frames = Append(frs, d.frame)]

\* v22.New after the loop: tag := new(Tag); tag.frames = frames.
v22Tag(frs) ==
    [present |-> TRUE, size |-> 0, flagUnsynchronisation |-> FALSE,
     flagCompression |-> FALSE, frames |-> frs]

\* v23.New up to the loop, accepting the header of any edition.
v23ReadHeaderAnyEdition(data, pos) ==
    LET r == Read(data, pos, v23HeaderSize)
        header == r.buf
    IN  IF r.err # NilErr THEN [done |-> TRUE, off |-> pos + r.n, ret |-> Return(Nil, r.err)]
        ELSE IF r.n # v23HeaderSize
        THEN [done |-> TRUE, off |-> pos + r.n, ret |-> Return(Nil, <<"must read 10 bytes">>)]
        ELSE IF Slice(header, 0, 3) # MagicID3
        THEN [done |-> TRUE, off |-> pos + r.n, ret |-> Return(Nil, <<"v23.ErrTagNotFound">>)]
        ELSE [done |-> FALSE, off |-> pos + r.n,
              framesSize |-> ByteToInt(Slice(header, 6, 10)), flags |-> header[6]]

\* v23.New up to the loop.
v23ReadHeader(data, pos) ==
    LET r == Read(data, pos, v23HeaderSize)
        header == r.buf
    IN  IF r.err # NilErr THEN [done |-> TRUE, off |-> pos + r.n, ret |-> Return(Nil, r.err)]
        ELSE IF r.n # v23HeaderSize
        THEN [done |-> TRUE, off |-> pos + r.n, ret |-> Return(Nil, <<"must read 10 bytes">>)]
        ELSE IF Slice(header, 0, 3) # MagicID3 \/ header[4] # 3
        THEN [done |-> TRUE, off |-> pos + r.n, ret |-> Return(Nil, <<"v23.ErrTagNotFound">>)]
        ELSE [done |-> FALSE, off |-> pos + r.n,
              framesSize |-> ByteToInt(Slice(header, 6, 10)), flags |-> header[6]]

\* One iteration of v23.New's loop body.
v23Iterate(data, pos, tt, frs) ==
    LET rh == Read(data, pos, v23FrameHeaderSize)
        frameHeader == rh.buf
        frameID == Slice(frameHeader, 0, 4)
        frameSize == ByteToInt(Slice(frameHeader, 4, 8))
        rb == Read(data, pos + rh.n, frameSize)
        d == v23Decode(frameID, frameSize, rb.buf)
        at == [off |-> pos + rh.n, t |-> tt + rh.n, frames |-> frs, err |-> NilErr]
        after == [at EXCEPT !.off = @ + rb.n, !.t = @ + rb.n]
    IN  IF rh.err # NilErr
        THEN [status |-> "error"] @@ [at EXCEPT !.t = tt, !.err = rh.err]
        ELSE IF ~MatchFrameID(frameID)
        THEN IF frameHeader[1] = 0
             THEN [status |-> "break"] @@ at
             ELSE [status |-> "error"] @@ [at EXCEPT !.err = <<"error on reading frames">>]
        ELSE IF rb.err # NilErr
        THEN [status |-> "error"] @@ [at EXCEPT !.err = rb.err]
        ELSE IF d.panic THEN [status |-> "panic"] @@ after
        ELSE [status |-> "continue"] @@ [after EXCEPT !.frames = Append(frs, d.frame)]

\* v23.New after the loop.
v23Tag(frs, size, flagByte) ==
    [present |-> TRUE, size |-> size,
     flagUnsynchronisation |-> Bit(flagByte, 128),
     flagExtendedHeader |-> Bit(flagByte, 64),
     flagExperimentalIndicator |-> Bit(flagByte, 32),
     frames |-> frs]

\* v24.New up to the loop.
v24ReadHeader(data, pos) ==
    LET r == Read(data, pos, v24HeaderSize)
        header == r.buf
    IN  IF r.err # NilErr
        THEN [done |-> TRUE, off |-> pos + r.n,
              ret |-> Return(Nil, Wrap("error on read header", r.err))]
        ELSE IF r.n # v24HeaderSize
        THEN [done |-> TRUE, off |-> pos + r.n, ret |-> Return(Nil, <<"must read 10 bytes">>)]
        ELSE IF Slice(header, 0, 3) # MagicID3 \/ header[4] # 4
        THEN [done |-> TRUE, off |-> pos + r.n, ret |-> Return(Nil, <<"v24.ErrTagNotFound">>)]
        ELSE [done |-> FALSE, off |-> pos + r.n,
              framesSize |-> ByteToInt(Slice(header, 6, 10)), flags |-> header[6]]

\* One iteration of v24.New's loop body.
v24Iterate(data, pos, tt, frs, areaSize) ==
    LET rh == Read(data, pos, v24FrameHeaderSize)
        frameHeader == rh.buf
        frameID == Slice(frameHeader, 0, 4)
        frameSize == ByteToInt(Slice(frameHeader, 4, 8))
        rb == Read(data, pos + rh.n, frameSize)
        d == v24Decode(frameHeader, frameSize, rb.buf, areaSize)
        at == [off |-> pos + rh.n, t |-> tt + rh.n, frames |-> frs, err |-> NilErr]
        after == [at EXCEPT !.off = @ + rb.n, !.t = @ + rb.n]
    IN  IF rh.err # NilErr
        THEN [status |-> "error"] @@ [at EXCEPT !.t = tt, !.err = <<"error on read frame header">>]
        ELSE IF ~MatchFrameID(frameID)
        THEN IF frameHeader[1] = 0
             THEN [status |-> "break"] @@ at
             ELSE [status |-> "error"] @@ [at EXCEPT !.err = <<"error on reading frames">>]
        ELSE IF rb.err # NilErr
        THEN [status |-> "error"] @@ [at EXCEPT !.err = Wrap("error on read frame body", rb.err)]
        ELSE IF d.panic THEN [status |-> "panic"] @@ after
        ELSE [status |-> "continue"] @@ [after EXCEPT !.frames = Append(frs, d.frame)]

\* v24.New after the loop.
v24Tag(frs, size, flagByte) ==
    [present |-> TRUE, frames |-> frs, Size |-> size,
     UnsynchronisationFlag |-> Bit(flagByte, 128),
     ExtendedHeaderFlag |-> Bit(flagByte, 64),
     ExperimentalIndicatorFlag |-> Bit(flagByte, 32),
     FooterPresentFlag |-> Bit(flagByte, 16)]

----------------------------------------------------------------------------
(* The parser steps as actions.  A parser call starts at pc = "<pkg>.New"  *)
(* and ends at pc = "<pkg>.return" with ret set, or at pc = "panic".       *)

NoReturn == Return(Nil, NilErr)

\* v22.New, lines 358-373.
v22Header ==
    /\ pc = "v22.New"
    /\ LET h == v22ReadHeader(file, off)
       IN  /\ off' = h.off
           /\ calls' = Append(calls, "v22")
           /\ t' = 0
           /\ frames' = <<>>
           /\ pc' = IF h.done THEN "v22.return" ELSE "v22.loop"
           /\ ret' = IF h.done THEN h.ret ELSE NoReturn
           /\ framesSize' = IF h.done THEN 0 ELSE h.framesSize
           /\ flags' = IF h.done THEN 0 ELSE h.flags
    /\ UNCHANGED <<file, caller, id3, result, seekFail, out>>

\* The loop of v22.New without the test of t against the declared size.
v22LoopUnbounded ==
    /\ pc = "v22.loop"
    /\ LET s == v22Iterate(file, off, t, frames)
       IN  /\ off' = s.off
           /\ t' = s.t
           /\ frames' = s.frames
           /\ pc' = CASE s.status = "continue" -> "v22.loop"
                      [] s.status = "panic" -> "panic"
                      [] OTHER -> "v22.return"
           /\ ret' = CASE s.status = "error" -> Return(Nil, s.err)
                       [] s.status = "break" -> Return(v22Tag(s.frames), NilErr)
                       [] OTHER -> ret
    /\ UNCHANGED <<file, caller, framesSize, flags, calls, id3, result, seekFail, out>>

\* v22.New, lines 375-492: the loop test, one iteration, and the return after the loop.
v22Loop ==
    /\ pc = "v22.loop"
    /\ IF t < framesSize
       THEN LET s == v22Iterate(file, off, t, frames)
            IN  /\ off' = s.off
                /\ t' = s.t
                /\ frames' = s.frames
                /\ pc' = CASE s.status = "continue" -> "v22.loop"
                           [] s.status = "panic" -> "panic"
                           [] OTHER -> "v22.return"
                /\ ret' = CASE s.status = "error" -> Return(Nil, s.err)
                            [] s.status = "break" -> Return(v22Tag(s.frames), NilErr)
                            [] OTHER -> ret
       ELSE /\ pc' = "v22.return"
            /\ ret' = Return(v22Tag(frames), NilErr)
            /\ UNCHANGED <<off, t, frames>>
    /\ UNCHANGED <<file, caller, framesSize, flags, calls, id3, result, seekFail, out>>

\* v23.New, lines 413-429.
v23Header ==
    /\ pc = "v23.New"
    /\ LET h == v23ReadHeader(file, off)
       IN  /\ off' = h.off
           /\ calls' = Append(calls, "v23")
           /\ t' = 0
           /\ frames' = <<>>
           /\ pc' = IF h.done THEN "v23.return" ELSE "v23.loop"
           /\ ret' = IF h.done THEN h.ret ELSE NoReturn
           /\ framesSize' = IF h.done THEN 0 ELSE h.framesSize
           /\ flags' = IF h.done THEN 0 ELSE h.flags
    /\ UNCHANGED <<file, caller, id3, result, seekFail, out>>

\* v23.New, lines 431-593.
v23Loop ==
    /\ pc = "v23.loop"
    /\ IF t < framesSize
       THEN LET s == v23Iterate(file, off, t, frames)
            IN  /\ off' = s.off
                /\ t' = s.t
                /\ frames' = s.frames
                /\ pc' = CASE s.status = "continue" -> "v23.loop"
                           [] s.status = "panic" -> "panic"
                           [] OTHER -> "v23.return"
                /\ ret' = CASE s.status = "error" -> Return(Nil, s.err)
                            [] s.status = "break" ->
                                  Return(v23Tag(s.frames, framesSize, flags), NilErr)
                            [] OTHER -> ret
       ELSE /\ pc' = "v23.return"
            /\ ret' = Return(v23Tag(frames, framesSize, flags), NilErr)
            /\ UNCHANGED <<off, t, frames>>
    /\ UNCHANGED <<file, caller, framesSize, flags, calls, id3, result, seekFail, out>>

\* v24.New, lines 439-456.
v24Header ==
    /\ pc = "v24.New"
    /\ LET h == v24ReadHeader(file, off)
       IN  /\ off' = h.off
           /\ calls' = Append(calls, "v24")
           /\ t' = 0
           /\ frames' = <<>>
           /\ pc' = IF h.done THEN "v24.return" ELSE "v24.loop"
           /\ ret' = IF h.done THEN h.ret ELSE NoReturn
           /\ framesSize' = IF h.done THEN 0 ELSE h.framesSize
           /\ flags' = IF h.done THEN 0 ELSE h.flags
    /\ UNCHANGED <<file, caller, id3, result, seekFail, out>>

\* v24.New, lines 458-647.
v24Loop ==
    /\ pc = "v24.loop"
    /\ IF t < framesSize
       THEN LET s == v24Iterate(file, off, t, frames, framesSize)
            IN  /\ off' = s.off
                /\ t' = s.t
                /\ frames' = s.frames
                /\ pc' = CASE s.status = "continue" -> "v24.loop"
                           [] s.status = "panic" -> "panic"
                           [] OTHER -> "v24.return"
                /\ ret' = CASE s.status = "error" -> Return(Nil, s.err)
                            [] s.status = "break" ->
                                  Return(v24Tag(s.frames, framesSize, flags), NilErr)
                            [] OTHER -> ret
       ELSE /\ pc' = "v24.return"
            /\ ret' = Return(v24Tag(frames, framesSize, flags), NilErr)
            /\ UNCHANGED <<off, t, frames>>
    /\ UNCHANGED <<file, caller, framesSize, flags, calls, id3, result, seekFail, out>>

----------------------------------------------------------------------------
(* The fixed-layout reader v1.New (the v1 package id3.go compiles against). *)

TagSize == 128

\* "TAG"
MagicTAG == <<84, 65, 71>>

\* for i := lo; i < hi; i++ { if b[i] == 0 { break }; s += string(b[i]) }
RECURSIVE FixedField(_, _, _)
FixedField(b, lo, hi) ==
    IF lo >= hi \/ b[lo + 1] = 0 THEN <<>>
    ELSE EncodeRune(b[lo + 1]) \o FixedField(b, lo + 1, hi)

\* fmt.Sprintf("%d", n) and strconv.Itoa(n) for n >= 0.
RECURSIVE Itoa(_)
Itoa(n) == IF n < 10 THEN <<48 + n>> ELSE Itoa(n \div 10) \o <<48 + (n % 10)>>

\* v1.New: seek to the last 128 bytes, read them, check the magic, cut the fields.
v1New(data) ==
    LET start == Len(data) - TagSize
        r == Read(data, start, TagSize)
        b == r.buf
        v11 == b[126] = 0
    IN  IF start < 0
        THEN [off |-> 0, ret |-> Return(Nil, <<"error on seek tag size", "negative position">>)]
        ELSE IF r.err # NilErr
        THEN [off |-> start + r.n, ret |-> Return(Nil, Wrap("error on read tag size", r.err))]
        ELSE IF r.n # TagSize
        THEN [off |-> start + r.n, ret |-> Return(Nil, <<"must read 128 bytes">>)]
        ELSE IF Slice(b, 0, 3) # MagicTAG
        THEN [off |-> start + r.n, ret |-> Return(Nil, <<"v1.ErrTagNotFound">>)]
        ELSE [off |-> start + r.n,
              ret |-> Return([present |-> TRUE,
                              title |-> FixedField(b, 3, 33),
                              artist |-> FixedField(b, 33, 63),
                              album |-> FixedField(b, 63, 93),
                              year |-> FixedField(b, 93, 97),
                              comment |-> IF v11 THEN FixedField(b, 97, 125)
                                          ELSE FixedField(b, 97, 127),
                              albumTrack |-> IF v11 THEN Itoa(b[127]) ELSE <<>>,
                              genreIndex |-> b[128]],
                             NilErr)]

----------------------------------------------------------------------------
(* Package v1 with Tag.Write (src/v1/v1.go).                               *)

\* Tag.Clear: version 1.0, empty texts, track 0, genre index 255.
ClearedTag ==
    [present |-> TRUE, version |-> "ID3v1", title |-> <<>>, artist |-> <<>>,
     album |-> <<>>, year |-> <<>>, comment |-> <<>>, albumTrack |-> 0,
     genreIndex |-> 255]

\* New of src/v1/v1.go: the last 128 bytes; without the magic the cleared tag and
\* ErrTagNotFound; version 1.1 when byte 125 is zero and byte 126 is not.
v1NewRW(data, pos) ==
    LET start == Len(data) - TagSize
        r == Read(data, start, TagSize)
        b == r.buf
        v11 == b[126] = 0 /\ b[127] # 0
    IN  IF start < 0
        THEN [off |-> pos, ret |-> Return(Nil, <<"negative position">>)]
        ELSE IF r.err # NilErr
        THEN [off |-> start + r.n, ret |-> Return(Nil, r.err)]
        ELSE IF r.n # TagSize
        THEN [off |-> start + r.n, ret |-> Return(Nil, <<"must read 128 bytes">>)]
        ELSE IF Slice(b, 0, 3) # MagicTAG
        THEN [off |-> start + r.n, ret |-> Return(ClearedTag, <<"v1.ErrTagNotFound">>)]
        ELSE [off |-> start + r.n,
              ret |-> Return([present |-> TRUE,
                              version |-> IF v11 THEN "ID3v1.1" ELSE "ID3v1",
                              title |-> FixedField(b, 3, 33),
                              artist |-> FixedField(b, 33, 63),
                              album |-> FixedField(b, 63, 93),
                              year |-> FixedField(b, 93, 97),
                              comment |-> IF v11 THEN FixedField(b, 97, 125)
                                          ELSE FixedField(b, 97, 127),
                              albumTrack |-> IF v11 THEN b[127] ELSE 0,
                              genreIndex |-> b[128]],
                             NilErr)]

\* for i := lo; i < hi && i-lo < len(s); i++ { tb[i] = s[i-lo] }: the bytes of s up to
\* the width of the field, the rest of the field left zero.
WriteField(s, width) == [i \in 1..width |-> IF i <= Len(s) THEN s[i] ELSE 0]

\* The 128 bytes Tag.Write builds: the comment is 30 wide in version 1.0 and 28 wide,
\* followed by zero and byte(albumTrack), in version 1.1.
TagBinary(tag) ==
    MagicTAG \o WriteField(tag.title, 30) \o WriteField(tag.artist, 30)
        \o WriteField(tag.album, 30) \o WriteField(tag.year, 4)
        \o (CASE tag.version = "ID3v1" -> WriteField(tag.comment, 30)
              [] tag.version = "ID3v1.1" ->
                    WriteField(tag.comment, 28) \o <<0, tag.albumTrack % 256>>
              [] OTHER -> Zeros(30))
        \o <<tag.genreIndex % 256>>

\* Tag.Write: read the last 128 bytes; seek back over them when they are a tag,
\* else stay at the end of the file; write the 128 bytes there.
v1Write(tag, data, pos) ==
    LET start == Len(data) - TagSize
        r == Read(data, start, TagSize)
        at == IF Slice(r.buf, 0, 3) = MagicTAG THEN start ELSE start + r.n
    IN  IF start < 0 THEN [file |-> data, off |-> pos, err |-> <<"negative position">>]
        ELSE IF r.err # NilErr THEN [file |-> data, off |-> start + r.n, err |-> r.err]
        ELSE IF r.n # TagSize
        THEN [file |-> data, off |-> start + r.n, err |-> <<"must read 128 bytes">>]
        ELSE [file |-> SubSeq(data, 1, at) \o TagBinary(tag),
              off |-> at + TagSize, err |-> NilErr]

----------------------------------------------------------------------------
(* The facade constructor id3.New (src/id3.go), split at its parser calls. *)

\* return nil, fmt.Errorf(msg + ": %w", err)
Failed(msg, err) == [returned |-> TRUE, tag |-> Nil, err |-> Wrap(msg, err)]

\* Fatal without the errors.Is test: every error ends the construction.
FatalAny(err, sentinel) == err # NilErr

\* err != nil && !errors.Is(err, sentinel)
Fatal(err, sentinel) == err # NilErr /\ ~ErrorsIs(err, sentinel)

\* Rewind without the seek taking effect: the position stays where the previous
\* parser left it.
RewindUnmoved(k, next) ==
    IF seekFail = k
    THEN /\ result' = [returned |-> TRUE, tag |-> Nil, err |-> <<"error on seek", "seek failed">>]
         /\ pc' = "done"
         /\ UNCHANGED off
    ELSE /\ pc' = next
         /\ UNCHANGED <<off, result>>

\* if _, err := f.Seek(0, 0); err != nil { return nil, ... }: the k-th rewind, before
\* the call of the parser that starts at pc = next.
Rewind(k, next) ==
    IF seekFail = k
    THEN /\ result' = Failed("error on seek", <<"seek failed">>)
         /\ pc' = "done"
         /\ UNCHANGED off
    ELSE /\ off' = 0
         /\ pc' = next
         /\ UNCHANGED result

\* id3.New, lines 24-31: the v1 attempt.
NewV1 ==
    /\ pc = "id3.New"
    /\ LET r == v1New(file)
       IN  /\ off' = r.off
           /\ calls' = Append(calls, "v1")
           /\ id3' = [id3 EXCEPT !.V1 = r.ret.tag]
           /\ IF Fatal(r.ret.err, "v1.ErrTagNotFound")
              THEN /\ result' = Failed("error on new v1", r.ret.err)
                   /\ pc' = "done"
              ELSE /\ pc' = "seek22"
                   /\ UNCHANGED result
    /\ UNCHANGED <<file, caller, t, framesSize, flags, frames, ret, seekFail, out>>

\* id3.New, lines 33-37: rewind, then call v22.New.
NewSeekV22 ==
    /\ pc = "seek22"
    /\ Rewind(1, "v22.New")
    /\ UNCHANGED <<file, caller, t, framesSize, flags, frames, ret, calls, id3, seekFail, out>>

\* id3.New, lines 37-40: v22.New has returned.
NewV22Return ==
    /\ pc = "v22.return"
    /\ caller = "id3.New"
    /\ id3' = [id3 EXCEPT !.V22 = ret.tag]
    /\ IF Fatal(ret.err, "v22.ErrTagNotFound")
       THEN /\ result' = Failed("error on new v2.2", ret.err)
            /\ pc' = "done"
       ELSE /\ pc' = "seek23"
            /\ UNCHANGED result
    /\ UNCHANGED <<file, off, caller, t, framesSize, flags, frames, ret, calls, seekFail, out>>

\* id3.New, lines 42-46: rewind, then call v23.New.
NewSeekV23 ==
    /\ pc = "seek23"
    /\ Rewind(2, "v23.New")
    /\ UNCHANGED <<file, caller, t, framesSize, flags, frames, ret, calls, id3, seekFail, out>>

\* id3.New, lines 46-49: v23.New has returned.
NewV23Return ==
    /\ pc = "v23.return"
    /\ caller = "id3.New"
    /\ id3' = [id3 EXCEPT !.V23 = ret.tag]
    /\ IF Fatal(ret.err, "v23.ErrTagNotFound")
       THEN /\ result' = Failed("error on new v2.3", ret.err)
            /\ pc' = "done"
       ELSE /\ pc' = "seek24"
            /\ UNCHANGED result
    /\ UNCHANGED <<file, off, caller, t, framesSize, flags, frames, ret, calls, seekFail, out>>

\* id3.New, lines 51-55: rewind, then call v24.New.
NewSeekV24 ==
    /\ pc = "seek24"
    /\ Rewind(3, "v24.New")
    /\ UNCHANGED <<file, caller, t, framesSize, flags, frames, ret, calls, id3, seekFail, out>>

\* id3.New, lines 55-60: v24.New has returned; return tag, nil.
NewV24Return ==
    /\ pc = "v24.return"
    /\ caller = "id3.New"
    /\ id3' = [id3 EXCEPT !.V24 = ret.tag]
    /\ result' = IF Fatal(ret.err, "v24.ErrTagNotFound")
                 THEN Failed("error on new v2.4", ret.err)
                 ELSE [returned |-> TRUE, tag |-> id3', err |-> NilErr]
    /\ pc' = "done"
    /\ UNCHANGED <<file, off, caller, t, framesSize, flags, frames, ret, calls, seekFail, out>>

----------------------------------------------------------------------------
(* Library functions the accessors use, on strings as byte sequences.       *)

\* An accessor's outcome: a value, or a panic.
Value(v) == [panic |-> FALSE, value |-> v]

\* strings.Index(s, "/"): the first index of the byte from pos on, -1 without one.
RECURSIVE IndexByte(_, _, _)
IndexByte(s, c, pos) ==
    IF pos >= Len(s) THEN -1
    ELSE IF s[pos + 1] = c THEN pos
    ELSE IndexByte(s, c, pos + 1)

\* strings.Split(s, "/"): the pieces between separators, one piece for a string
\* without separator (the empty string included).
RECURSIVE Split(_)
Split(s) ==
    LET i == IndexByte(s, 47, 0)
    IN  IF i < 0 THEN <<s>>
        ELSE <<Slice(s, 0, i)>> \o Split(Slice(s, i + 1, Len(s)))

IsDigit(c) == c >= 48 /\ c <= 57

\* The value of a string of decimal digits.
RECURSIVE DigitsValue(_)
DigitsValue(s) ==
    IF s = <<>> THEN 0
    ELSE DigitsValue(SubSeq(s, 1, Len(s) - 1)) * 10 + (s[Len(s)] - 48)

\* strconv.Atoi(s) for strings short of overflow: an optional sign and one or more
\* digits; 0 and an error otherwise.
Atoi(s) ==
    LET signed == s # <<>> /\ s[1] \in {43, 45}
        digits == IF signed THEN Tail(s) ELSE s
    IN  IF digits # <<>> /\ \A i \in 1..Len(digits) : IsDigit(digits[i])
        THEN [ok |-> TRUE,
              n |-> IF signed /\ s[1] = 45 THEN 0 - DigitsValue(digits) ELSE DigitsValue(digits)]
        ELSE [ok |-> FALSE, n |-> 0]

\* strings.Trim(s, "()")
RECURSIVE Trim(_)
Trim(s) ==
    IF s # <<>> /\ s[1] \in {40, 41} THEN Trim(Tail(s))
    ELSE IF s # <<>> /\ s[Len(s)] \in {40, 41} THEN Trim(SubSeq(s, 1, Len(s) - 1))
    ELSE s

\* The end of the run of digits of s that starts at index j.
RECURSIVE DigitsEnd(_, _)
DigitsEnd(s, j) ==
    IF j < Len(s) /\ IsDigit(s[j + 1]) THEN DigitsEnd(s, j + 1) ELSE j

\* The end of the match of [(][0-9]+[)] that starts at index i of s, -1 without one.
MatchEnd(s, i) ==
    IF i < Len(s) /\ s[i + 1] = 40
    THEN LET j == DigitsEnd(s, i + 1)
         IN  IF j > i + 1 /\ j < Len(s) /\ s[j + 1] = 41 THEN j + 1 ELSE -1
    ELSE -1

\* regexp.MustCompile("[(][0-9]+[)]").FindStringIndex(s[pos:]) shifted by pos: the
\* leftmost match <<start, end>>, the empty sequence (nil) without one.
RECURSIVE FindFrom(_, _)
FindFrom(s, pos) ==
    IF pos >= Len(s) THEN <<>>
    ELSE IF MatchEnd(s, pos) >= 0 THEN <<pos, MatchEnd(s, pos)>>
    ELSE FindFrom(s, pos + 1)

FindStringIndex(s) == FindFrom(s, 0)

\* re.FindAllStringIndex(s, -1): the successive non-overlapping matches.
RECURSIVE FindAllFrom(_, _)
FindAllFrom(s, pos) ==
    LET m == FindFrom(s, pos)
    IN  IF m = <<>> THEN <<>> ELSE <<m>> \o FindAllFrom(s, m[2])

FindAllStringIndex(s) == FindAllFrom(s, 0)

\* v1.Genres: the legacy table of 192 genre names, indexed from 0.  Its entries are
\* represented by distinct non-empty names "g<index>".
Genres == [i \in 0..191 |-> <<103>> \o Itoa(i)]

----------------------------------------------------------------------------
(* The accessors of the v1 tag and of the framed tags.                      *)

\* v1 Tag.Genre
v1Genre(tag) ==
    IF tag.genreIndex < Cardinality(DOMAIN Genres) THEN Genres[tag.genreIndex] ELSE <<>>

\* Tag.Frames(id) with one identifier: the frames carrying it, in order.
Frames(tag, id) == SelectSeq(tag.frames, LAMBDA f : f.base.id = id)

\* Tag.Frames(ids...) stopping at the first frame found.
FramesIDsFirstOnly(tag, ids) ==
    IF Len(ids) = 0 THEN tag.frames
    ELSE LET found == SelectSeq(tag.frames, LAMBDA f : \E j \in 1..Len(ids) : f.base.id = ids[j])
         IN  IF found = <<>> THEN <<>> ELSE <<found[1]>>

\* The inner loop of Tag.Frames: the frame is appended once for every ids[j] equal to
\* its identifier.
RECURSIVE FramesLoop(_, _)
FramesLoop(frs, ids) ==
    IF frs = <<>> THEN <<>>
    ELSE LET hits == SelectSeq(ids, LAMBDA id : Head(frs).base.id = id)
         IN  [k \in 1..Len(hits) |-> Head(frs)] \o FramesLoop(Tail(frs), ids)

\* Tag.Frames(ids...): all frames when no identifier is given.
FramesIDs(tag, ids) ==
    IF Len(ids) = 0 THEN tag.frames ELSE FramesLoop(tag.frames, ids)

\* frames[i].(TextInformationFrame)
IsText(f) == f.kind = "TextInformationFrame"

\* Title, Album and Year: the text of the first frame with the identifier, when it is
\* a text frame.
FirstText(tag, id) ==
    LET frs == Frames(tag, id)
    IN  IF Len(frs) > 0 /\ IsText(frs[1]) THEN frs[1].text ELSE <<>>

\* Artists reading the first frame only, as Title does.
SplitFirst(frs) ==
    IF frs # <<>> /\ IsText(frs[1]) THEN Split(frs[1].text) ELSE <<>>

\* Artists and AlbumArtists: strings.Split of every text frame with the identifier,
\* appended in order.
RECURSIVE SplitAll(_)
SplitAll(frs) ==
    IF frs = <<>> THEN <<>>
    ELSE (IF IsText(frs[1]) THEN Split(frs[1].text) ELSE <<>>) \o SplitAll(Tail(frs))

\* TrackNumberAndPosition taking the position from the last part of the text.
TrackAndPositionLastPart(tag, id) ==
    LET frs == Frames(tag, id)
        parts == Split(frs[1].text)
    IN  IF Len(frs) > 0 /\ IsText(frs[1])
        THEN <<Atoi(parts[1]).n, IF Len(parts) > 1 THEN Atoi(parts[Len(parts)]).n ELSE 0>>
        ELSE <<0, 0>>

\* TrackNumberAndPosition: the first frame's text split at "/", each part through
\* Atoi with its error dropped.
TrackAndPosition(tag, id) ==
    LET frs == Frames(tag, id)
        parts == Split(frs[1].text)
    IN  IF Len(frs) > 0 /\ IsText(frs[1])
        THEN <<Atoi(parts[1]).n, IF Len(parts) > 1 THEN Atoi(parts[2]).n ELSE 0>>
        ELSE <<0, 0>>

\* AttachedPictures: the frames with the identifier that are picture frames.
Pictures(tag, id) ==
    SelectSeq(Frames(tag, id), LAMBDA f : f.kind = "AttachedPictureFrame")

\* genreProcess (the same in the three packages): the text after the first
\* parenthesised number when there is any, else the table entry of the number;
\* idxs[1] on a nil idxs panics.
genreProcess(s) ==
    LET idxs == FindStringIndex(s)
        rest == Slice(s, idxs[2], Len(s))
        id == Atoi(Trim(Slice(s, idxs[1], idxs[2])))
    IN  IF idxs = <<>> THEN Panic
        ELSE IF Len(rest) > 0 /\ rest[1] # 0 THEN Value(rest)
        ELSE IF id.ok /\ Cardinality(DOMAIN Genres) > id.n THEN Value(Genres[id.n])
        ELSE Value(<<>>)

\* genres = append(genres, genre) when genreProcess returned a non-empty genre.
AppendGenre(genres, g) ==
    IF genres.panic \/ g.panic THEN Panic
    ELSE IF g.value # <<>> THEN Value(Append(genres.value, g.value))
    ELSE genres

\* The loop over idxs in Genres and the call after it: a segment from old up to each
\* match that does not start at old, then the segment from old to the end.
RECURSIVE GenreSegments(_, _, _, _)
GenreSegments(txt, idxs, old, genres) ==
    IF genres.panic THEN Panic
    ELSE IF idxs = <<>>
    THEN AppendGenre(genres, genreProcess(Slice(txt, old, Len(txt))))
    ELSE IF old = idxs[1][1]
    THEN GenreSegments(txt, Tail(idxs), old, genres)
    ELSE GenreSegments(txt, Tail(idxs), idxs[1][1],
                       AppendGenre(genres, genreProcess(Slice(txt, old, idxs[1][1]))))

\* v22 Tag.Genres: every text frame goes through the segment loop.
RECURSIVE v22GenresLoop(_, _)
v22GenresLoop(frs, genres) ==
    IF genres.panic THEN Panic
    ELSE IF frs = <<>> THEN genres
    ELSE IF ~IsText(frs[1]) THEN v22GenresLoop(Tail(frs), genres)
    ELSE v22GenresLoop(Tail(frs),
             GenreSegments(frs[1].text, FindAllStringIndex(frs[1].text), 0, genres))

\* v23 and v24 Tag.Genres: a bare number is looked up in the table (an index below 0
\* panics), a text with parenthesised numbers goes through the segment loop, any
\* other text is appended as it is.
RECURSIVE v23GenresLoop(_, _)
v23GenresLoop(frs, genres) ==
    IF genres.panic THEN Panic
    ELSE IF frs = <<>> THEN genres
    ELSE IF ~IsText(frs[1]) THEN v23GenresLoop(Tail(frs), genres)
    ELSE LET txt == frs[1].text
             id == Atoi(txt)
             idxs == FindAllStringIndex(txt)
         IN  v23GenresLoop(Tail(frs),
                 IF id.ok
                 THEN IF Cardinality(DOMAIN Genres) > id.n
                      THEN IF id.n < 0 THEN Panic
                           ELSE Value(Append(genres.value, Genres[id.n]))
                      ELSE genres
                 ELSE IF Len(idxs) > 0 THEN GenreSegments(txt, idxs, 0, genres)
                 ELSE Value(Append(genres.value, txt)))

\* The identifiers the accessors look up: TT2 TP1 TAL TP2 TYE TRK PIC TCO in v2.2,
\* TIT2 TPE1 TALB TPE2 TYER TRCK APIC TCON in v2.3, the same with TDRC for the year
\* in v2.4.
v22IDs ==
    [Title |-> <<84,84,50>>, Artists |-> <<84,80,49>>, Album |-> <<84,65,76>>,
     AlbumArtists |-> <<84,80,50>>, Year |-> <<84,89,69>>, Track |-> <<84,82,75>>,
     Pictures |-> <<80,73,67>>, Genres |-> <<84,67,79>>]
v23IDs ==
    [Title |-> <<84,73,84,50>>, Artists |-> <<84,80,69,49>>, Album |-> <<84,65,76,66>>,
     AlbumArtists |-> <<84,80,69,50>>, Year |-> <<84,89,69,82>>, Track |-> <<84,82,67,75>>,
     Pictures |-> <<65,80,73,67>>, Genres |-> <<84,67,79,78>>]
v24IDs == [v23IDs EXCEPT !.Year = <<84,68,82,67>>]

v22Title(tag) == FirstText(tag, v22IDs.Title)
v22Artists(tag) == SplitAll(Frames(tag, v22IDs.Artists))
v22Album(tag) == FirstText(tag, v22IDs.Album)
v22AlbumArtists(tag) == SplitAll(Frames(tag, v22IDs.AlbumArtists))
v22Year(tag) == FirstText(tag, v22IDs.Year)
v22TrackNumberAndPosition(tag) == TrackAndPosition(tag, v22IDs.Track)
v22AttachedPictures(tag) == Pictures(tag, v22IDs.Pictures)
v22Genres(tag) == v22GenresLoop(Frames(tag, v22IDs.Genres), Value(<<>>))

v23Title(tag) == FirstText(tag, v23IDs.Title)
v23Artists(tag) == SplitAll(Frames(tag, v23IDs.Artists))
v23Album(tag) == FirstText(tag, v23IDs.Album)
v23AlbumArtists(tag) == SplitAll(Frames(tag, v23IDs.AlbumArtists))
v23Year(tag) == FirstText(tag, v23IDs.Year)
v23TrackNumberAndPosition(tag) == TrackAndPosition(tag, v23IDs.Track)
v23AttachedPictures(tag) == Pictures(tag, v23IDs.Pictures)
v23Genres(tag) == v23GenresLoop(Frames(tag, v23IDs.Genres), Value(<<>>))

v24Title(tag) == FirstText(tag, v24IDs.Title)
v24Artists(tag) == SplitAll(Frames(tag, v24IDs.Artists))
v24Album(tag) == FirstText(tag, v24IDs.Album)
v24AlbumArtists(tag) == SplitAll(Frames(tag, v24IDs.AlbumArtists))
v24Year(tag) == FirstText(tag, v24IDs.Year)
v24TrackNumberAndPosition(tag) == TrackAndPosition(tag, v24IDs.Track)
v24AttachedPictures(tag) == Pictures(tag, v24IDs.Pictures)
v24Genres(tag) == v23GenresLoop(Frames(tag, v24IDs.Genres), Value(<<>>))

----------------------------------------------------------------------------
(* The accessors of the Unified Tag (src/id3.go); u is the ID3 struct.      *)

v1Title(tag) == tag.title
v1Artist(tag) == tag.artist
v1Album(tag) == tag.album
v1Year(tag) == tag.year
v1AlbumTrack(tag) == tag.albumTrack

\* ID3.Title with the editions consulted oldest first.
ID3TitleOldestFirst(u) ==
    IF u.V1 # Nil /\ v1Title(u.V1) # <<>> THEN Value(v1Title(u.V1))
    ELSE IF u.V22 # Nil /\ v22Title(u.V22) # <<>> THEN Value(v22Title(u.V22))
    ELSE IF u.V23 # Nil /\ v23Title(u.V23) # <<>> THEN Value(v23Title(u.V23))
    ELSE IF u.V24 # Nil /\ v24Title(u.V24) # <<>> THEN Value(v24Title(u.V24))
    ELSE Value(<<>>)

\* ID3.Title
ID3Title(u) ==
    IF u.V24 # Nil /\ v24Title(u.V24) # <<>> THEN Value(v24Title(u.V24))
    ELSE IF u.V23 # Nil /\ v23Title(u.V23) # <<>> THEN Value(v23Title(u.V23))
    ELSE IF u.V22 # Nil /\ v22Title(u.V22) # <<>> THEN Value(v22Title(u.V22))
    ELSE IF u.V1 # Nil /\ v1Title(u.V1) # <<>> THEN Value(v1Title(u.V1))
    ELSE Value(<<>>)

\* ID3.Album
ID3Album(u) ==
    IF u.V24 # Nil /\ v24Album(u.V24) # <<>> THEN Value(v24Album(u.V24))
    ELSE IF u.V23 # Nil /\ v23Album(u.V23) # <<>> THEN Value(v23Album(u.V23))
    ELSE IF u.V22 # Nil /\ v22Album(u.V22) # <<>> THEN Value(v22Album(u.V22))
    ELSE IF u.V1 # Nil /\ v1Album(u.V1) # <<>> THEN Value(v1Album(u.V1))
    ELSE Value(<<>>)

\* ID3.AlbumArtists; the v1 fallback is the artist.
ID3AlbumArtists(u) ==
    IF u.V24 # Nil /\ Len(v24AlbumArtists(u.V24)) > 0 THEN Value(v24AlbumArtists(u.V24))
    ELSE IF u.V23 # Nil /\ Len(v23AlbumArtists(u.V23)) > 0 THEN Value(v23AlbumArtists(u.V23))
    ELSE IF u.V22 # Nil /\ Len(v22AlbumArtists(u.V22)) > 0 THEN Value(v22AlbumArtists(u.V22))
    ELSE IF u.V1 # Nil /\ v1Artist(u.V1) # <<>> THEN Value(<<v1Artist(u.V1)>>)
    ELSE Value(<<>>)

\* ID3.Artists
ID3Artists(u) ==
    IF u.V24 # Nil /\ Len(v24Artists(u.V24)) > 0 THEN Value(v24Artists(u.V24))
    ELSE IF u.V23 # Nil /\ Len(v23Artists(u.V23)) > 0 THEN Value(v23Artists(u.V23))
    ELSE IF u.V22 # Nil /\ Len(v22Artists(u.V22)) > 0 THEN Value(v22Artists(u.V22))
    ELSE IF u.V1 # Nil /\ v1Artist(u.V1) # <<>> THEN Value(<<v1Artist(u.V1)>>)
    ELSE Value(<<>>)

\* ID3.TrackNumberAndPosition; in the v1 branch the pair is returned only when Atoi
\* reports an error.
ID3TrackNumberAndPosition(u) ==
    IF u.V24 # Nil /\ v24TrackNumberAndPosition(u.V24)[1] # 0
    THEN Value(v24TrackNumberAndPosition(u.V24))
    ELSE IF u.V23 # Nil /\ v23TrackNumberAndPosition(u.V23)[1] # 0
    THEN Value(v23TrackNumberAndPosition(u.V23))
    ELSE IF u.V22 # Nil /\ v22TrackNumberAndPosition(u.V22)[1] # 0
    THEN Value(v22TrackNumberAndPosition(u.V22))
    ELSE IF u.V1 # Nil /\ v1AlbumTrack(u.V1) # <<>> /\ ~Atoi(v1AlbumTrack(u.V1)).ok
    THEN Value(<<Atoi(v1AlbumTrack(u.V1)).n, 0>>)
    ELSE Value(<<0, 0>>)

\* ID3.Year
ID3Year(u) ==
    IF u.V24 # Nil /\ v24Year(u.V24) # <<>> THEN Value(v24Year(u.V24))
    ELSE IF u.V23 # Nil /\ v23Year(u.V23) # <<>> THEN Value(v23Year(u.V23))
    ELSE IF u.V22 # Nil /\ v22Year(u.V22) # <<>> THEN Value(v22Year(u.V22))
    ELSE IF u.V1 # Nil /\ v1Year(u.V1) # <<>> THEN Value(v1Year(u.V1))
    ELSE Value(<<>>)

\* ID3.AttachedPictures; there is no v1 fallback.
ID3AttachedPictures(u) ==
    IF u.V24 # Nil /\ Len(v24AttachedPictures(u.V24)) > 0
    THEN Value(v24AttachedPictures(u.V24))
    ELSE IF u.V23 # Nil /\ Len(v23AttachedPictures(u.V23)) > 0
    THEN Value(v23AttachedPictures(u.V23))
    ELSE IF u.V22 # Nil /\ Len(v22AttachedPictures(u.V22)) > 0
    THEN Value(v22AttachedPictures(u.V22))
    ELSE Value(<<>>)

\* ID3.Genres; a panic of an edition's Genres passes through.
ID3Genres(u) ==
    IF u.V24 # Nil /\ v24Genres(u.V24).panic THEN Panic
    ELSE IF u.V24 # Nil /\ Len(v24Genres(u.V24).value) > 0 THEN v24Genres(u.V24)
    ELSE IF u.V23 # Nil /\ v23Genres(u.V23).panic THEN Panic
    ELSE IF u.V23 # Nil /\ Len(v23Genres(u.V23).value) > 0 THEN v23Genres(u.V23)
    ELSE IF u.V22 # Nil /\ v22Genres(u.V22).panic THEN Panic
    ELSE IF u.V22 # Nil /\ Len(v22Genres(u.V22).value) > 0 THEN v22Genres(u.V22)
    ELSE IF u.V1 # Nil /\ v1Genre(u.V1) # <<>> THEN Value(<<v1Genre(u.V1)>>)
    ELSE Value(<<>>)

\* A call of one accessor on the Unified Tag; out holds what it returned.
Call(fn, r) ==
    /\ pc = "accessors"
    /\ out' = [fn |-> fn, result |-> r]
    /\ UNCHANGED <<file, off, pc, caller, t, framesSize, flags, frames, ret, calls, id3,
                   result, seekFail>>

CallTitle == Call("Title", ID3Title(id3))
CallAlbum == Call("Album", ID3Album(id3))
CallAlbumArtists == Call("AlbumArtists", ID3AlbumArtists(id3))
CallArtists == Call("Artists", ID3Artists(id3))
CallTrackNumberAndPosition == Call("TrackNumberAndPosition", ID3TrackNumberAndPosition(id3))
CallYear == Call("Year", ID3Year(id3))
CallAttachedPictures == Call("AttachedPictures", ID3AttachedPictures(id3))
CallGenres == Call("Genres", ID3Genres(id3))

----------------------------------------------------------------------------
(* Byte sources for the framed parsers: a 10-byte header, frames, a tail.  *)

\* n as k big-endian bytes (what lib.ByteToInt reads back).
RECURSIVE IntToBytes(_, _)
IntToBytes(n, k) ==
    IF k = 0 THEN <<>>
    ELSE Append(IntToBytes(n \div 256, k - 1), n % 256)

\* The 10-byte tag header: magic, edition, revision, flag byte, frame-area size.
HeaderBytes(magic, edition, flagByte, size) ==
    magic \o <<edition, 0, flagByte>> \o IntToBytes(size, 4)

\* A frame header of the edition: 3-byte identifier and 3-byte size in v2.2, 4-byte
\* identifier, 4-byte size and two flag bytes in v2.3 and v2.4.
FrameHeaderBytes(edition, frameID, size) ==
    IF edition = 2 THEN frameID \o IntToBytes(size, 3)
    ELSE frameID \o IntToBytes(size, 4) \o <<0, 0>>

FrameHeaderSize(edition) ==
    CASE edition = 2 -> v22FrameHeaderSize
      [] edition = 3 -> v23FrameHeaderSize
      [] OTHER -> v24FrameHeaderSize

\* All byte strings over alphabet of length 0..n.
RECURSIVE BytesUpTo(_, _)
BytesUpTo(alphabet, n) ==
    IF n = 0 THEN {<<>>}
    ELSE LET shorter == BytesUpTo(alphabet, n - 1)
         IN  shorter \cup {Append(s, b) : s \in shorter, b \in alphabet}

\* Frame bodies: empty, or a leading byte (the encoding selector where the type has
\* one: the four encodings, and 4, which is outside lib.Encodings) followed by up to
\* MaxBody - 1 bytes of 'A' and zero.
Selectors == {0, 1, 3, 4}
Bodies == {<<>>} \cup {<<e>> \o c : e \in Selectors, c \in BytesUpTo({0, 65}, MaxBody - 1)}

\* The identifiers the sources use, per edition: one per decoder case the edition's
\* table reaches, a declared identifier of type unknown, and an undeclared one.
SourceIDs(edition) ==
    CASE edition = 2 ->
            { <<84,84,50>>,       \* TT2  text
              <<87,65,82>>,       \* WAR  URL
              <<80,73,67>>,       \* PIC  picture
              <<67,79,77>>,       \* COM  comments
              <<84,67,80>>,       \* TCP  compilation flag
              <<84,88,88>>,       \* TXX  declared, type unknown
              <<73,80,76>>,       \* IPL  declared, a type without a decoder
              <<90,90,90>> }      \* ZZZ  undeclared
      [] edition = 3 ->
            { <<84,73,84,50>>,    \* TIT2 text
              <<84,88,88,88>>,    \* TXXX user-defined text
              <<87,88,88,88>>,    \* WXXX user-defined URL
              <<87,79,65,82>>,    \* WOAR URL
              <<65,80,73,67>>,    \* APIC picture
              <<67,79,77,77>>,    \* COMM comments
              <<85,83,69,82>>,    \* USER terms of use
              <<90,90,90,90>> }   \* ZZZZ undeclared
      [] OTHER ->
            { <<84,73,84,50>>,    \* TIT2 text
              <<84,88,88,88>>,    \* TXXX user-defined text
              <<87,88,88,88>>,    \* WXXX declared, type unknown
              <<65,80,73,67>>,    \* APIC picture
              <<80,79,80,77>>,    \* POPM popularimeter
              <<90,90,90,90>> }   \* ZZZZ undeclared

\* The title identifier of the edition, with a one-character Latin-1 body "A".
TitleID(edition) == IF edition = 2 THEN <<84,84,50>> ELSE <<84,73,84,50>>
TitleFrame(edition) == FrameHeaderBytes(edition, TitleID(edition), 2) \o <<0, 65>>

\* What may follow the first frame: nothing, padding, a second frame, bytes that are
\* no identifier: lowercase letters, a letter between zero bytes, a letter followed by
\* zero bytes.
Tails(edition) ==
    { <<>>,
      Zeros(FrameHeaderSize(edition)),
      TitleFrame(edition),
      [i \in 1..FrameHeaderSize(edition) |-> 97],
      [i \in 1..FrameHeaderSize(edition) |-> IF i = 2 THEN 65 ELSE 0],
      [i \in 1..FrameHeaderSize(edition) |-> IF i = 1 THEN 65 ELSE 0] }

\* Sources with a well-formed header whose declared size is the frame area's length:
\* every identifier with every body, alone or followed by a second frame.
DecodeSources(edition) ==
    { HeaderBytes(MagicID3, edition, 0, FrameHeaderSize(edition) + Len(body) + Len(tail))
        \o FrameHeaderBytes(edition, frameID, Len(body)) \o body \o tail :
        frameID \in SourceIDs(edition), body \in Bodies,
        tail \in {<<>>, TitleFrame(edition)} }

\* Sources whose framing is off: the frame declares extra bytes beyond its body, the
\* header declares a size other than the area's length, any tail follows.
FramingSources(edition) ==
    { HeaderBytes(MagicID3, edition, flagByte, size)
        \o FrameHeaderBytes(edition, frameID, Len(body) + extra) \o body \o tail :
        flagByte \in {0, 240}, size \in {0, 1, FrameHeaderSize(edition) + 2, 40},
        frameID \in {TitleID(edition), IF edition = 2 THEN <<90,90,90>> ELSE <<90,90,90,90>>},
        body \in {<<0>>, <<0, 65>>}, extra \in {0, 1, 3},
        tail \in Tails(edition) }

\* Sources without a usable header: empty, cut short, wrong magic, another edition.
HeaderSources(edition) ==
    { <<>>, MagicID3, SubSeq(HeaderBytes(MagicID3, edition, 0, 0), 1, 9),
      HeaderBytes(<<73, 68, 50>>, edition, 0, 0),
      HeaderBytes(<<84, 65, 71>>, edition, 0, 8) \o TitleFrame(edition),
      HeaderBytes(MagicID3, edition, 0, 0),
      HeaderBytes(MagicID3, 5, 0, 0) }
    \cup { HeaderBytes(MagicID3, other, 0, 0) : other \in {2, 3, 4} }

\* The comments identifier of the edition (declared with type unknown in v2.4).
CommentsID(edition) == IF edition = 2 THEN <<67,79,77>> ELSE <<67,79,77,77>>

\* Descriptions of an attached picture as bytes in the encoding of selector e: empty,
\* one unit without a zero byte and, for the 2-byte encodings, one unit with one (U+0100
\* in UTF-16, 'A' in UTF-16BE).
Descriptions(e) ==
    CASE e = 1 -> {<<>>, <<65, 0>>, <<0, 1>>}
      [] e = 2 -> {<<>>, <<1, 1>>, <<0, 65>>}
      [] OTHER -> {<<>>, <<104>>}

\* The attached-picture layout: encoding byte, MIME type, zero, picture type,
\* description, a terminator as wide as a unit of the encoding, picture data.
PictureBody(e, mime, type, description, payload) ==
    <<e>> \o mime \o <<0, type>> \o description \o Zeros(Encodings[e + 1].Size) \o payload

Payloads == {<<>>, <<1, 2>>, <<0, 7>>}

PictureBodies ==
    UNION { { PictureBody(e, mime, 3, description, payload) :
                mime \in {<<>>, <<105>>}, description \in Descriptions(e),
                payload \in Payloads } : e \in 0..3 }

\* Frames of the documentation's examples: a UTF-16 title with a byte-order mark, a
\* Latin-1 comment with and without a zero byte after the language; in v2.3 and v2.4
\* the attached pictures of PictureBodies.
ExampleFrames(edition) ==
    { [id |-> TitleID(edition), body |-> <<1, 255, 254, 65, 0, 66, 0>>],
      [id |-> CommentsID(edition), body |-> <<0, 101, 110, 103, 0, 104, 105, 0, 98, 121, 101>>],
      [id |-> CommentsID(edition), body |-> <<0, 101, 110, 103, 104, 105, 0, 98, 121, 101>>] }
    \cup (IF edition = 2 THEN {}
          ELSE {[id |-> <<65,80,73,67>>, body |-> body] : body \in PictureBodies})

ExampleSources(edition) ==
    { HeaderBytes(MagicID3, edition, 0, FrameHeaderSize(edition) + Len(f.body))
        \o FrameHeaderBytes(edition, f.id, Len(f.body)) \o f.body :
        f \in ExampleFrames(edition) }

\* An undeclared identifier of the edition ("ZZZ", "ZZZZ").
UndeclaredID(edition) == IF edition = 2 THEN <<90,90,90>> ELSE <<90,90,90,90>>

\* Three frames in a row, each a title "A" or an undeclared frame with body 00 41,
\* in a frame area of exactly their length.
SequenceSources(edition) ==
    LET title == TitleFrame(edition)
        other == FrameHeaderBytes(edition, UndeclaredID(edition), 2) \o <<0, 65>>
    IN  { HeaderBytes(MagicID3, edition, 0, 3 * (FrameHeaderSize(edition) + 2))
            \o a \o b \o c : a \in {title, other}, b \in {title, other}, c \in {title, other} }

\* One undeclared frame whose size needs the high bit of a byte (129) or two bytes (258),
\* in a frame area of exactly its length, whole or cut after the first body byte.
SizeSources(edition) ==
    UNION { { SubSeq(HeaderBytes(MagicID3, edition, 0, FrameHeaderSize(edition) + size)
                        \o FrameHeaderBytes(edition, UndeclaredID(edition), size)
                        \o [i \in 1..size |-> IF i = 1 THEN 0 ELSE 65],
                     1, 10 + FrameHeaderSize(edition) + len) : len \in {1, size} } :
            size \in {129, 258} }

ParseSources(edition) ==
    DecodeSources(edition) \cup FramingSources(edition) \cup HeaderSources(edition)
        \cup ExampleSources(edition) \cup SequenceSources(edition)
        \cup SizeSources(edition)

ParserPC(edition) ==
    CASE edition = 2 -> "v22.New"
      [] edition = 3 -> "v23.New"
      [] OTHER -> "v24.New"

NoID3 == [V1 |-> Nil, V22 |-> Nil, V23 |-> Nil, V24 |-> Nil]
NoResult == [returned |-> FALSE, tag |-> Nil, err |-> NilErr]
NoOut == [fn |-> "none"]

\* One framed parser called directly on a source positioned at its start.
InitParse ==
    /\ \E edition \in {2, 3, 4} :
          /\ pc = ParserPC(edition)
          /\ file \in ParseSources(edition)
    /\ off = 0
    /\ caller = "direct"
    /\ t = 0
    /\ framesSize = 0
    /\ flags = 0
    /\ frames = <<>>
    /\ ret = NoReturn
    /\ calls = <<>>
    /\ id3 = NoID3
    /\ result = NoResult
    /\ seekFail = 0
    /\ out = NoOut

\* The identifier lists Tag.Frames is called with: none, one identifier, two.
FrameQueries(edition) ==
    {<<>>, <<TitleID(edition), UndeclaredID(edition)>>}
        \cup {<<id>> : id \in SourceIDs(edition) \cup {CommentsID(edition)}}

\* tag.Frames(ids...) on the tag a parser returned.
CallFrames ==
    /\ \E edition \in {2, 3, 4} :
          /\ pc = CASE edition = 2 -> "v22.return"
                     [] edition = 3 -> "v23.return"
                     [] OTHER -> "v24.return"
          /\ ret.tag # Nil
          /\ \E ids \in FrameQueries(edition) :
                out' = [fn |-> "Frames", ids |-> ids, result |-> FramesIDs(ret.tag, ids)]
    /\ UNCHANGED <<file, off, pc, caller, t, framesSize, flags, frames, ret, calls, id3,
                   result, seekFail>>

NextParse ==
    \/ CallFrames
    \/ v22Header
    \/ v22Loop
    \/ v23Header
    \/ v23Loop
    \/ v24Header
    \/ v24Loop

SpecParse == InitParse /\ [][NextParse]_vars

----------------------------------------------------------------------------
(* One parser call run to its end (SpecRun).                                *)

\* Sources for a whole call: three frames in a row, every prefix of a source of a
\* title frame and an undeclared frame (the source ends inside the tag header, a frame
\* header or a body), and one frame of each identifier with a body of at most one byte.
RunSources(edition) ==
    LET two == HeaderBytes(MagicID3, edition, 0, 2 * (FrameHeaderSize(edition) + 2))
                  \o TitleFrame(edition)
                  \o FrameHeaderBytes(edition, UndeclaredID(edition), 2) \o <<0, 65>>
    IN  SequenceSources(edition)
            \cup { SubSeq(two, 1, n) : n \in 0..Len(two) }
            \cup { s \in DecodeSources(edition) : Len(s) <= 10 + FrameHeaderSize(edition) + 1 }

InitRun ==
    /\ \E edition \in {2, 3, 4} :
          /\ pc = ParserPC(edition)
          /\ file \in RunSources(edition)
    /\ off = 0
    /\ caller = "direct"
    /\ t = 0
    /\ framesSize = 0
    /\ flags = 0
    /\ frames = <<>>
    /\ ret = NoReturn
    /\ calls = <<>>
    /\ id3 = NoID3
    /\ result = NoResult
    /\ seekFail = 0
    /\ out = NoOut

NextRun ==
    \/ v22Header
    \/ v22Loop
    \/ v23Header
    \/ v23Loop
    \/ v24Header
    \/ v24Loop

\* A parser call is sequential code on the caller's goroutine: once entered, New runs
\* its next step (the header read, a loop iteration, the return) without waiting for
\* anything but the reads of the source, which return at once.
SpecRun == InitRun /\ [][NextRun]_vars /\ WF_vars(NextRun)

----------------------------------------------------------------------------
(* lib.ToUTF8 called directly on a byte span.                              *)

MaxSpan == 3

\* The spans in the documentation's examples: UTF-16 "AB" after a byte-order mark,
\* and big-endian UTF-16 "AB".
ExampleSpans == { <<255, 254, 65, 0, 66, 0>>, <<0, 65, 0, 66>> }

\* Byte spans of every length up to MaxSpan, even and odd, over zero, 'A' and D8 (the
\* high byte of a surrogate), and the example spans.
Spans == BytesUpTo({0, 65, 216}, MaxSpan) \cup ExampleSpans

InitText ==
    /\ file \in Spans
    /\ pc = "lib.ToUTF8"
    /\ off = 0
    /\ caller = "direct"
    /\ t = 0
    /\ framesSize = 0
    /\ flags = 0
    /\ frames = <<>>
    /\ ret = NoReturn
    /\ calls = <<>>
    /\ id3 = NoID3
    /\ result = NoResult
    /\ seekFail = 0
    /\ out = NoOut

\* lib.ToUTF8(file, enc) for one of the four descriptors of lib.Encodings: a read
\* outside the span is Go's index-out-of-range panic.
CallToUTF8 ==
    /\ pc = "lib.ToUTF8"
    /\ \E sel \in 1..Len(Encodings) :
          LET enc == Encodings[sel]
              inRange == ToUTF8Reads(file, enc) \subseteq 0..(Len(file) - 1)
          IN  /\ pc' = IF inRange THEN "lib.return" ELSE "panic"
              /\ out' = [fn |-> "lib.ToUTF8", enc |-> enc,
                         result |-> IF inRange THEN ToUTF8(file, enc) ELSE <<>>]
    /\ UNCHANGED <<file, off, caller, t, framesSize, flags, frames, ret, calls, id3,
                   result, seekFail>>

NextText == CallToUTF8

SpecText == InitText /\ [][NextText]_vars

----------------------------------------------------------------------------
(* Sources for id3.New: a head (nothing, or a framed tag of one edition) and the *)
(* last 128 bytes (a v1 or v1.1 block, or bytes that are no block).              *)

\* s followed by zeros up to n bytes.
Padded(s, n) == s \o Zeros(n - Len(s))

\* The 128-byte block: magic, title "A", artist "B", album "C", year "1999",
\* comment "D", then the v1.1 marker and track bytes, then the genre index.
V1Block(magic, marker, track, genre) ==
    magic \o Padded(<<65>>, 30) \o Padded(<<66>>, 30) \o Padded(<<67>>, 30)
          \o <<49, 57, 57, 57>> \o Padded(<<68>>, 28) \o <<marker, track, genre>>

Trailers ==
    { <<>>,
      Zeros(TagSize),
      V1Block(MagicTAG, 0, 5, 17),
      V1Block(MagicTAG, 0, 0, 17),
      V1Block(MagicTAG, 69, 70, 255),
      V1Block(<<84, 65, 72>>, 0, 5, 17) }

\* Heads of one edition: a title frame alone, then padding; a title frame followed by
\* bytes that are no identifier; a title frame of size 0.
Heads(edition) ==
    LET FH == FrameHeaderSize(edition)
    IN  { HeaderBytes(MagicID3, edition, 0, FH + 2) \o TitleFrame(edition),
          HeaderBytes(MagicID3, edition, 0, 2 * FH + 2) \o TitleFrame(edition) \o Zeros(FH),
          HeaderBytes(MagicID3, edition, 0, 2 * FH + 2) \o TitleFrame(edition)
              \o [i \in 1..FH |-> 97],
          HeaderBytes(MagicID3, edition, 0, FH) \o FrameHeaderBytes(edition, TitleID(edition), 0) }

FacadeSources ==
    { head \o trailer :
        head \in {<<>>, MagicID3} \cup UNION {Heads(edition) : edition \in {2, 3, 4}},
        trailer \in Trailers }

\* id3.New called on a source; seekFail is the rewind that fails (0: none does).
Init ==
    /\ file \in FacadeSources
    /\ seekFail \in 0..3
    /\ pc = "id3.New"
    /\ caller = "id3.New"
    /\ off = 0
    /\ t = 0
    /\ framesSize = 0
    /\ flags = 0
    /\ frames = <<>>
    /\ ret = NoReturn
    /\ calls = <<>>
    /\ id3 = NoID3
    /\ result = NoResult
    /\ out = NoOut

Next ==
    \/ NewV1
    \/ NewSeekV22
    \/ v22Header
    \/ v22Loop
    \/ NewV22Return
    \/ NewSeekV23
    \/ v23Header
    \/ v23Loop
    \/ NewV23Return
    \/ NewSeekV24
    \/ v24Header
    \/ v24Loop
    \/ NewV24Return

Spec == Init /\ [][Next]_vars

----------------------------------------------------------------------------
(* Unified Tags for the accessors: each edition absent, or a tag its parser *)
(* builds; the four fields are filled independently (SpecAcc).              *)

MaxTrack == 2

\* The frame the edition's decoder builds from an identifier and a body.
FrameOf(edition, frameID, body) ==
    CASE edition = 2 -> v22Decode(frameID, Len(body), body).frame
      [] edition = 3 -> v23Decode(frameID, Len(body), body).frame
      [] OTHER -> v24Decode(FrameHeaderBytes(4, frameID, Len(body)), Len(body), body,
                            v24FrameHeaderSize + Len(body)).frame

TagOf(edition, frs) ==
    CASE edition = 2 -> v22Tag(frs)
      [] edition = 3 -> v23Tag(frs, 0, 0)
      [] OTHER -> v24Tag(frs, 0, 0)

IDs(edition) ==
    CASE edition = 2 -> v22IDs
      [] edition = 3 -> v23IDs
      [] OTHER -> v24IDs

\* A Latin-1 text frame.
TextFrame(edition, frameID, text) == FrameOf(edition, frameID, <<0>> \o text)

\* A picture frame with type 3, an empty description and one byte of data.
PictureFrame(edition) ==
    FrameOf(edition, IDs(edition).Pictures,
            IF edition = 2 THEN <<0, 80, 78, 71, 3, 0, 48 + edition>>
            ELSE <<0, 105, 0, 3, 0, 48 + edition>>)

\* The tags of one edition; the texts carry the edition's letter (G, H, I) or digit.
Tags(edition) ==
    LET id == IDs(edition)
        c == 69 + edition
        d == 48 + edition
        T(frameID, text) == TextFrame(edition, frameID, text)
    IN  { Nil,
          TagOf(edition, <<>>),
          TagOf(edition, << T(id.Title, <<c>>), T(id.Artists, <<c, 47, c, c>>),
                            T(id.Album, <<c, 65>>), T(id.AlbumArtists, <<c, 66>>),
                            T(id.Year, <<49, 57, 57, d>>), T(id.Track, <<d, 47, 49, 50>>),
                            T(id.Genres, <<40, 49, d, 41>>), PictureFrame(edition) >>),
          TagOf(edition, << T(id.Title, <<>>), T(id.Artists, <<>>), T(id.Album, <<>>),
                            T(id.AlbumArtists, <<>>), T(id.Year, <<>>), T(id.Track, <<>>) >>),
          TagOf(edition, << T(id.Title, <<>>), T(id.Title, <<c>>) >>),
          TagOf(edition, << T(id.Artists, <<c>>), T(id.Artists, <<c, 47>>) >>),
          TagOf(edition, << T(id.Genres, <<c, c>>) >>),
          TagOf(edition, << T(id.Genres, <<40, d, 41>>), T(id.Genres, <<40, 49, 41, c>>) >>),
          TagOf(edition, << T(id.Track, <<d>>) >>),
          TagOf(edition, << T(id.Track, <<48, 47, d>>) >>),
          TagOf(edition, << PictureFrame(edition), PictureFrame(edition) >>) }

\* The 128-byte blocks v1.New reads the v1 tags from: v1.1 with every track number,
\* v1.0, and a block of empty fields.
V1Blocks ==
    { MagicTAG \o Padded(<<65>>, 30) \o Padded(<<66>>, 30) \o Padded(<<67>>, 30)
               \o <<49, 57, 57, 57>> \o Padded(<<68>>, 28) \o <<0, track, 17>> :
        track \in 0..MaxTrack }
    \cup { MagicTAG \o Padded(<<65>>, 30) \o Padded(<<66>>, 30) \o Padded(<<67>>, 30)
                    \o <<49, 57, 57, 57>> \o Padded(<<68>>, 28) \o <<69, 70, 255>>,
           MagicTAG \o Zeros(122) \o <<69, 70, 255>> }

V1Tags == {Nil} \cup { v1New(block).ret.tag : block \in V1Blocks }

InitAcc ==
    /\ id3 \in [V1 : V1Tags, V22 : Tags(2), V23 : Tags(3), V24 : Tags(4)]
    /\ pc = "accessors"
    /\ caller = "direct"
    /\ file = <<>>
    /\ off = 0
    /\ t = 0
    /\ framesSize = 0
    /\ flags = 0
    /\ frames = <<>>
    /\ ret = NoReturn
    /\ calls = <<>>
    /\ result = NoResult
    /\ seekFail = 0
    /\ out = NoOut

NextAcc ==
    \/ CallTitle
    \/ CallAlbum
    \/ CallAlbumArtists
    \/ CallArtists
    \/ CallTrackNumberAndPosition
    \/ CallYear
    \/ CallAttachedPictures
    \/ CallGenres

SpecAcc == InitAcc /\ [][NextAcc]_vars

----------------------------------------------------------------------------
(* The field accessors of a framed edition on the tag its parser returns.  *)

\* Artist texts: "A/B", "A", "", "/B", "B//A".
ArtistTexts == { <<65,47,66>>, <<65>>, <<>>, <<47,66>>, <<66,47,47,65>> }

\* Track texts: "3/12", "3", "", "3/", "/12", "x/12", "3/x", "3x", "3/12/5", "03/012".
TrackTexts ==
    { <<51,47,49,50>>, <<51>>, <<>>, <<51,47>>, <<47,49,50>>, <<120,47,49,50>>,
      <<51,47,120>>, <<51,120>>, <<51,47,49,50,47,53>>, <<48,51,47,48,49,50>> }

\* Genre texts: "Rock", "Ro(l)", "13", "(13)", "(13)Pop", "(13)(4)", "(13)(4)Pop",
\* "Miscellaneous(31)Ska".
GenreTexts ==
    { <<82,111,99,107>>, <<82,111,40,108,41>>, <<49,51>>, <<40,49,51,41>>,
      <<40,49,51,41,80,111,112>>, <<40,49,51,41,40,52,41>>,
      <<40,49,51,41,40,52,41,80,111,112>>,
      <<77,105,115,99,101,108,108,97,110,101,111,117,115,40,51,49,41,83,107,97>> }

\* A frame of the edition as it lies in the source: header, then the text in
\* ISO-8859-1 after the encoding byte.
TextFrameBytes(edition, frameID, text) ==
    FrameHeaderBytes(edition, frameID, 1 + Len(text)) \o <<0>> \o text

FieldFrames(edition) ==
    {TextFrameBytes(edition, IDs(edition).Artists, x) : x \in ArtistTexts}
        \cup {TextFrameBytes(edition, IDs(edition).AlbumArtists, x) :
                    x \in {<<65,47,66>>, <<>>, <<67>>}}
        \cup {TextFrameBytes(edition, IDs(edition).Track, x) : x \in TrackTexts}
        \cup {TextFrameBytes(edition, IDs(edition).Genres, x) : x \in GenreTexts}

\* Tags of no, one and two frames, the frame area declared at its length.
FieldSources(edition) ==
    { HeaderBytes(MagicID3, edition, 0, Len(a) + Len(b)) \o a \o b :
        a \in FieldFrames(edition) \cup {<<>>}, b \in FieldFrames(edition) \cup {<<>>} }

InitFields ==
    /\ \E edition \in {2, 3, 4} :
          /\ pc = ParserPC(edition)
          /\ file \in FieldSources(edition)
    /\ off = 0
    /\ caller = "direct"
    /\ t = 0
    /\ framesSize = 0
    /\ flags = 0
    /\ frames = <<>>
    /\ ret = NoReturn
    /\ calls = <<>>
    /\ id3 = NoID3
    /\ result = NoResult
    /\ seekFail = 0
    /\ out = NoOut

\* The accessor fn of the edition's Tag.
TagAccessor(edition, fn, tag) ==
    CASE fn = "Artists" ->
            (CASE edition = 2 -> v22Artists(tag)
               [] edition = 3 -> v23Artists(tag)
               [] OTHER -> v24Artists(tag))
      [] fn = "AlbumArtists" ->
            (CASE edition = 2 -> v22AlbumArtists(tag)
               [] edition = 3 -> v23AlbumArtists(tag)
               [] OTHER -> v24AlbumArtists(tag))
      [] fn = "TrackNumberAndPosition" ->
            (CASE edition = 2 -> v22TrackNumberAndPosition(tag)
               [] edition = 3 -> v23TrackNumberAndPosition(tag)
               [] OTHER -> v24TrackNumberAndPosition(tag))
      [] OTHER ->
            (CASE edition = 2 -> v22Genres(tag)
               [] edition = 3 -> v23Genres(tag)
               [] OTHER -> v24Genres(tag))

\* tag.fn() on the tag a parser returned.
TagCall(fn) ==
    /\ \E edition \in {2, 3, 4} :
          /\ pc = CASE edition = 2 -> "v22.return"
                     [] edition = 3 -> "v23.return"
                     [] OTHER -> "v24.return"
          /\ ret.tag # Nil
          /\ out' = [fn |-> fn, edition |-> edition,
                     result |-> TagAccessor(edition, fn, ret.tag)]
    /\ UNCHANGED <<file, off, pc, caller, t, framesSize, flags, frames, ret, calls, id3,
                   result, seekFail>>

CallTagArtists == TagCall("Artists")
CallTagAlbumArtists == TagCall("AlbumArtists")
CallTagTrackNumberAndPosition == TagCall("TrackNumberAndPosition")
CallTagGenres == TagCall("Genres")

NextFields ==
    \/ v22Header
    \/ v22Loop
    \/ v23Header
    \/ v23Loop
    \/ v24Header
    \/ v24Loop
    \/ CallTagArtists
    \/ CallTagAlbumArtists
    \/ CallTagTrackNumberAndPosition
    \/ CallTagGenres

SpecFields == InitFields /\ [][NextFields]_vars

----------------------------------------------------------------------------
(* Tag.Write followed by New of package v1 (src/v1/v1.go) on the same file. *)

\* n times the byte c.
Rep(c, n) == [i \in 1..n |-> c]

\* Tags to write: texts that are empty, short, exactly as wide as the field and wider
\* (the byte after the width differs), a title with the two bytes of U+00E9;
\* both versions, with and without a track; genre indexes 0 and 255.
WriteTags ==
    { [present |-> TRUE, version |-> version, title |-> title, artist |-> artist,
       album |-> album, year |-> year, comment |-> comment, albumTrack |-> track,
       genreIndex |-> genre] :
        version \in {"ID3v1", "ID3v1.1"},
        title \in {<<>>, <<65>>, Rep(65, 30) \o <<66>>, <<195, 169>>},
        artist \in {<<66>>, Rep(66, 30) \o <<65>>},
        album \in {<<67>>, Rep(67, 30)},
        year \in {<<>>, <<49,57,57,57>>, <<49,57,57,57,53>>},
        comment \in {<<>>, Rep(68, 28), Rep(68, 28) \o <<69>>, Rep(68, 30) \o <<69>>},
        track \in {0, 5},
        genre \in {0, 255} }

\* Files to write to: too short for a tag, 128 and 130 bytes without a tag, a v1.1
\* tag alone and after two other bytes.
WriteFiles ==
    { <<1, 2>>, Zeros(TagSize), Zeros(TagSize + 2), V1Block(MagicTAG, 0, 1, 17),
      <<1, 2>> \o V1Block(MagicTAG, 0, 1, 17) }

InitWrite ==
    /\ id3 \in {[NoID3 EXCEPT !.V1 = tag] : tag \in WriteTags}
    /\ file \in WriteFiles
    /\ pc = "v1.Write"
    /\ off = 0
    /\ caller = "direct"
    /\ t = 0
    /\ framesSize = 0
    /\ flags = 0
    /\ frames = <<>>
    /\ ret = NoReturn
    /\ calls = <<>>
    /\ result = NoResult
    /\ seekFail = 0
    /\ out = NoOut

\* id3.V1.Write(f): t keeps the length the file had.
CallWrite ==
    /\ pc = "v1.Write"
    /\ LET w == v1Write(id3.V1, file, off)
       IN  /\ file' = w.file
           /\ off' = w.off
           /\ out' = [fn |-> "Write", err |-> w.err]
           /\ pc' = IF w.err = NilErr THEN "v1.written" ELSE "v1.failed"
    /\ t' = Len(file)
    /\ UNCHANGED <<caller, framesSize, flags, frames, ret, calls, id3, result, seekFail>>

\* v1.New(f) on the file just written.
CallNewRW ==
    /\ pc = "v1.written"
    /\ LET r == v1NewRW(file, off)
       IN  /\ off' = r.off
           /\ ret' = r.ret
    /\ pc' = "v1.reread"
    /\ UNCHANGED <<file, caller, t, framesSize, flags, frames, calls, id3, result,
                   seekFail, out>>

NextWrite ==
    \/ CallWrite
    \/ CallNewRW

SpecWrite == InitWrite /\ [][NextWrite]_vars

----------------------------------------------------------------------------
(* Properties of id3.New (Spec).                                            *)

\* The error chain reports target (errors.Is), and is an error at all.
IsSentinel(err, target) == \E i \in 1..Len(err) : err[i] = target
OtherError(err, target) == err # NilErr /\ ~IsSentinel(err, target)

\* New has returned nil and an error.
Aborted(r) == r.returned /\ r.tag = Nil /\ r.err # NilErr

\* C1: in id3.New, when an edition's parser reports its tag-not-found sentinel, New
\* leaves that edition's field nil and goes on to the next edition (after v2.4: returns
\* the Unified Tag); when a parser returns any other error, New returns no Unified Tag
\* and an error.
C1_SentinelAbsentOtherFatal ==
    [][ /\ pc = "id3.New" =>
              LET r == v1New(file).ret
              IN  /\ IsSentinel(r.err, "v1.ErrTagNotFound") =>
                        id3'.V1 = Nil /\ pc' = "seek22" /\ ~result'.returned
                  /\ OtherError(r.err, "v1.ErrTagNotFound") => pc' = "done" /\ Aborted(result')
        /\ pc = "v22.return" =>
              /\ IsSentinel(ret.err, "v22.ErrTagNotFound") =>
                    id3'.V22 = Nil /\ pc' = "seek23" /\ ~result'.returned
              /\ OtherError(ret.err, "v22.ErrTagNotFound") => pc' = "done" /\ Aborted(result')
        /\ pc = "v23.return" =>
              /\ IsSentinel(ret.err, "v23.ErrTagNotFound") =>
                    id3'.V23 = Nil /\ pc' = "seek24" /\ ~result'.returned
              /\ OtherError(ret.err, "v23.ErrTagNotFound") => pc' = "done" /\ Aborted(result')
        /\ pc = "v24.return" =>
              /\ IsSentinel(ret.err, "v24.ErrTagNotFound") =>
                    /\ id3'.V24 = Nil
                    /\ pc' = "done"
                    /\ result' = [returned |-> TRUE, tag |-> id3', err |-> NilErr]
              /\ OtherError(ret.err, "v24.ErrTagNotFound") => pc' = "done" /\ Aborted(result')
      ]_vars

\* C1 witness: v1 and v2.2 reported their sentinels and were recorded absent, then
\* v23.New failed with another error and New returned nil and that error.
C1_Witness ==
    /\ pc = "done"
    /\ calls = <<"v1", "v22", "v23">>
    /\ id3.V1 = Nil /\ id3.V22 = Nil
    /\ Aborted(result)
    /\ result.err = <<"error on new v2.3", "error on reading frames">>

\* C4: id3.New calls the parsers one after another in the order v1, v2.2, v2.3, v2.4;
\* each framed parser starts at offset 0 and reads its header from the first bytes of
\* the source, whatever the previous attempt consumed; a failing seek ends the
\* construction with nil and an error, and no further parser is called.
C4_OrderedRewoundAttempts ==
    /\ [](/\ \E n \in 0..4 : calls = SubSeq(<<"v1", "v22", "v23", "v24">>, 1, n)
          /\ pc \in {"v22.New", "v23.New", "v24.New"} => off = 0
          /\ pc = "v22.New" => calls = <<"v1">>
          /\ pc = "v23.New" => calls = <<"v1", "v22">>
          /\ pc = "v24.New" => calls = <<"v1", "v22", "v23">>)
    /\ [][ /\ pc \in {"v22.New", "v23.New", "v24.New"} => off' = Min(10, Len(file))
           /\ \A k \in 1..3 :
                 (pc = <<"seek22", "seek23", "seek24">>[k] /\ seekFail = k) =>
                     pc' = "done" /\ Aborted(result') /\ calls' = calls
         ]_vars

\* C4 witness: v23.New consumed a whole tag, the third rewind failed, and New ended
\* with the seek error after the calls v1, v2.2, v2.3.
C4_Witness ==
    /\ pc = "done"
    /\ seekFail = 3
    /\ calls = <<"v1", "v22", "v23">>
    /\ id3.V23 # Nil
    /\ Len(id3.V23.frames) = 1
    /\ result.err = <<"error on seek", "seek failed">>

----------------------------------------------------------------------------
(* Properties of the framed parsers (SpecParse).                            *)

Editions == {2, 3, 4}

ParserName(edition) ==
    CASE edition = 2 -> "v22"
      [] edition = 3 -> "v23"
      [] OTHER -> "v24"

ReturnPC(edition) ==
    CASE edition = 2 -> "v22.return"
      [] edition = 3 -> "v23.return"
      [] OTHER -> "v24.return"

LoopPC(edition) ==
    CASE edition = 2 -> "v22.loop"
      [] edition = 3 -> "v23.loop"
      [] OTHER -> "v24.loop"

Sentinel(edition) ==
    CASE edition = 2 -> "v22.ErrTagNotFound"
      [] edition = 3 -> "v23.ErrTagNotFound"
      [] OTHER -> "v24.ErrTagNotFound"

DeclaredType(edition, frameID) ==
    LET table == CASE edition = 2 -> v22DeclaredFrames
                   [] edition = 3 -> v23DeclaredFrames
                   [] OTHER -> v24DeclaredFrames
    IN  IF frameID \in DOMAIN table THEN table[frameID] ELSE "undeclared"

\* The parser of the edition has returned a tag and no error.
Succeeded(edition) == pc = ReturnPC(edition) /\ ret.tag # Nil /\ ret.err = NilErr

\* The bytes the first i frames of frs declare: a header and the declared size each.
RECURSIVE Extent(_, _, _)
Extent(frs, i, headerSize) ==
    IF i = 0 THEN 0
    ELSE Extent(frs, i - 1, headerSize) + headerSize + frs[i].base.size

\* The source opens with the ten header bytes of a tag of the edition.
HeaderMatches(edition) ==
    Len(file) >= 10 /\ SubSeq(file, 1, 3) = MagicID3 /\ file[4] = edition

\* C5: when the magic of the 10-byte header is not "ID3" or its edition byte is not
\* the parser's own, the parser returns its ErrTagNotFound and no tag; and it reports
\* that sentinel in no other case, so the sentinel tells the mismatch from a short
\* header, a read failure and a malformed identifier.
C5_MismatchIsSentinel ==
    \A edition \in Editions :
        pc = ReturnPC(edition) =>
            /\ (Len(file) >= 10 /\ ~HeaderMatches(edition)) =>
                   ret = [tag |-> Nil, err |-> <<Sentinel(edition)>>]
            /\ IsSentinel(ret.err, Sentinel(edition)) =>
                   Len(file) >= 10 /\ ~HeaderMatches(edition) /\ ret.tag = Nil
            /\ \A other \in Editions \ {edition} : ~IsSentinel(ret.err, Sentinel(other))

\* C5 witness: v23.New has returned its sentinel for a source with the magic "ID3" and
\* the edition byte 2.
C5_Witness ==
    /\ pc = "v23.return"
    /\ ret = [tag |-> Nil, err |-> <<"v23.ErrTagNotFound">>]
    /\ Len(file) >= 10
    /\ SubSeq(file, 1, 3) = MagicID3
    /\ file[4] = 2

\* C6: a parser returns no tag holding a frame that extends past the declared frame
\* area: on success the frames' headers and declared bodies fit in the declared size.
C6_FramesWithinDeclaredArea ==
    \A edition \in Editions :
        Succeeded(edition) =>
            Extent(frames, Len(frames), FrameHeaderSize(edition)) <= framesSize

\* C7: a parser accepts no short read as a complete frame header or body: on success
\* every frame's header and declared body lie within the bytes of the source.
C7_NoShortReadAccepted ==
    \A edition \in Editions :
        Succeeded(edition) =>
            10 + Extent(frames, Len(frames), FrameHeaderSize(edition)) <= Len(file)

\* C8: decoding a frame never performs an out-of-range access: a parser call appends
\* frames or returns, and never ends in a panic.
C8_DecodingNeverPanics == pc # "panic"

\* The first frame header of the source, read by the parser of the edition.
FirstFrameID(edition) == SubSeq(file, 11, IF edition = 2 THEN 13 ELSE 14)
FirstFrameSize(edition) ==
    IF edition = 2 THEN ByteToInt(SubSeq(file, 14, 16)) ELSE ByteToInt(SubSeq(file, 15, 18))
FirstFrameBody(edition) ==
    SubSeq(file, 11 + FrameHeaderSize(edition),
                 10 + FrameHeaderSize(edition) + FirstFrameSize(edition))

\* The parser of the edition is past the first frame of a source that holds that frame
\* in full, with a frame area declared non-empty.
PastFirstFrame(edition) ==
    /\ calls = <<ParserName(edition)>>
    /\ HeaderMatches(edition)
    /\ ByteToInt(SubSeq(file, 7, 10)) > 0
    /\ Len(file) >= 10 + FrameHeaderSize(edition)
    /\ Len(file) >= 10 + FrameHeaderSize(edition) + FirstFrameSize(edition)
    /\ \/ pc \in {ReturnPC(edition), "panic"}
       \/ pc = LoopPC(edition) /\ t > 0

\* C9: a Text-Information frame of declared size zero decodes to a Text-Information
\* frame with the empty text, without a panic and without an error.
C9_EmptyTextFrame ==
    \A edition \in Editions :
        ( /\ PastFirstFrame(edition)
          /\ DeclaredType(edition, FirstFrameID(edition)) = "TypeTextInformation"
          /\ FirstFrameSize(edition) = 0 ) =>
            /\ pc # "panic"
            /\ Len(frames) >= 1
            /\ frames[1].kind = "TextInformationFrame"
            /\ frames[1].text = <<>>

\* The indexes i = 1, 1 + step, ... of body at which a terminator of step zero bytes
\* lies within body.
Terminators(body, step) ==
    { i \in 1..(Len(body) - 1) :
        /\ (i - 1) % step = 0
        /\ i + step <= Len(body)
        /\ \A k \in 1..step : body[i + k] = 0 }

SetMin(S) == CHOOSE x \in S : \A y \in S : x <= y

\* C10: a user-defined text or URL frame splits at the first terminator found from
\* byte 1 in steps of the encoding's unit: description before, value after; without a
\* terminator the description is empty and the value is all of the body after the
\* encoding byte.
C10_UserDefinedSplit ==
    \A edition \in {3, 4} :
        LET type == DeclaredType(edition, FirstFrameID(edition))
            body == FirstFrameBody(edition)
            enc == Encodings[body[1] + 1]
            ts == Terminators(body, enc.Size)
            cut == SetMin(ts)
            description == IF ts = {} THEN <<>> ELSE ToUTF8(SubSeq(body, 2, cut), enc)
            rest == IF ts = {} THEN SubSeq(body, 2, Len(body))
                    ELSE SubSeq(body, cut + enc.Size + 1, Len(body))
        IN  ( /\ PastFirstFrame(edition)
              /\ type \in {"TypeUserDefinedTextInformation", "TypeUserDefinedURLLink"}
              /\ FirstFrameSize(edition) >= 1
              /\ body[1] < 4 ) =>
                /\ pc # "panic"
                /\ Len(frames) >= 1
                /\ frames[1].description = description
                /\ type = "TypeUserDefinedTextInformation" => frames[1].value = ToUTF8(rest, enc)
                /\ type = "TypeUserDefinedURLLink" => frames[1].url = rest

----------------------------------------------------------------------------
(* Properties of the unified accessors (SpecAcc).                           *)

\* The first result in rs (newest edition first) that is not empty; the empty value
\* when there is none.  A panic met on the way is the outcome.
RECURSIVE NewestNonEmpty(_)
NewestNonEmpty(rs) ==
    IF rs = <<>> THEN Value(<<>>)
    ELSE IF rs[1].panic THEN Panic
    ELSE IF rs[1].value # <<>> THEN rs[1]
    ELSE NewestNonEmpty(Tail(rs))

\* What each edition of u supplies for the field fn, newest first; an absent edition
\* supplies the empty value.  The v1 tag supplies its artist as a one-element list for
\* Artists and AlbumArtists, its genre name likewise, and no picture.
Supplied(u, fn) ==
    LET One(s) == IF s = <<>> THEN <<>> ELSE <<s>>
        r24 == CASE fn = "Title" -> Value(v24Title(u.V24))
                 [] fn = "Album" -> Value(v24Album(u.V24))
                 [] fn = "Year" -> Value(v24Year(u.V24))
                 [] fn = "Artists" -> Value(v24Artists(u.V24))
                 [] fn = "AlbumArtists" -> Value(v24AlbumArtists(u.V24))
                 [] fn = "AttachedPictures" -> Value(v24AttachedPictures(u.V24))
                 [] fn = "Genres" -> v24Genres(u.V24)
        r23 == CASE fn = "Title" -> Value(v23Title(u.V23))
                 [] fn = "Album" -> Value(v23Album(u.V23))
                 [] fn = "Year" -> Value(v23Year(u.V23))
                 [] fn = "Artists" -> Value(v23Artists(u.V23))
                 [] fn = "AlbumArtists" -> Value(v23AlbumArtists(u.V23))
                 [] fn = "AttachedPictures" -> Value(v23AttachedPictures(u.V23))
                 [] fn = "Genres" -> v23Genres(u.V23)
        r22 == CASE fn = "Title" -> Value(v22Title(u.V22))
                 [] fn = "Album" -> Value(v22Album(u.V22))
                 [] fn = "Year" -> Value(v22Year(u.V22))
                 [] fn = "Artists" -> Value(v22Artists(u.V22))
                 [] fn = "AlbumArtists" -> Value(v22AlbumArtists(u.V22))
                 [] fn = "AttachedPictures" -> Value(v22AttachedPictures(u.V22))
                 [] fn = "Genres" -> v22Genres(u.V22)
        r1 == CASE fn = "Title" -> Value(u.V1.title)
                [] fn = "Album" -> Value(u.V1.album)
                [] fn = "Year" -> Value(u.V1.year)
                [] fn \in {"Artists", "AlbumArtists"} -> Value(One(u.V1.artist))
                [] fn = "AttachedPictures" -> Value(<<>>)
                [] fn = "Genres" -> Value(One(v1Genre(u.V1)))
    IN  << IF u.V24 = Nil THEN Value(<<>>) ELSE r24,
           IF u.V23 = Nil THEN Value(<<>>) ELSE r23,
           IF u.V22 = Nil THEN Value(<<>>) ELSE r22,
           IF u.V1 = Nil THEN Value(<<>>) ELSE r1 >>

V1Track(tag) == IF tag = Nil \/ tag.albumTrack = <<>> THEN 0 ELSE DigitsValue(tag.albumTrack)

\* C3: TrackNumberAndPosition returns the pair of the newest framed edition whose
\* track is not 0; when none has one and the v1 tag holds a track n > 0 it returns
\* (n, 0); it returns (0, 0) only when no edition supplies a track.
C3_TrackNewestNonZero ==
    out.fn = "TrackNumberAndPosition" =>
        LET u == id3
            framed == << IF u.V24 = Nil THEN <<0, 0>> ELSE v24TrackNumberAndPosition(u.V24),
                         IF u.V23 = Nil THEN <<0, 0>> ELSE v23TrackNumberAndPosition(u.V23),
                         IF u.V22 = Nil THEN <<0, 0>> ELSE v22TrackNumberAndPosition(u.V22) >>
            supplying == { i \in 1..3 : framed[i][1] # 0 }
        IN  out.result =
                IF supplying # {} THEN Value(framed[SetMin(supplying)])
                ELSE Value(<<V1Track(u.V1), 0>>)

----------------------------------------------------------------------------
(* Properties of the text decoder (SpecText).                              *)

\* The runes of the first n 2-byte units of data from the 0-based index start, the
\* low-order byte first.
RECURSIVE UnitsLE(_, _, _)
UnitsLE(data, start, n) ==
    IF n = 0 THEN <<>>
    ELSE UnitsLE(data, start, n - 1)
            \o EncodeRune(DecodeUnit(data[start + 2 * n - 1] + 256 * data[start + 2 * n]))

\* The same, the high-order byte first.
RECURSIVE UnitsBE(_, _, _)
UnitsBE(data, start, n) ==
    IF n = 0 THEN <<>>
    ELSE UnitsBE(data, start, n - 1)
            \o EncodeRune(DecodeUnit(256 * data[start + 2 * n - 1] + data[start + 2 * n]))

\* C13: lib.ToUTF8 returns a string for every span (empty, one byte, odd or even
\* length) and each of the four descriptors and reads no byte outside the span; for
\* UTF-16 the result is the decoding of the Len \div 2 complete units, low byte first,
\* and the one byte of an odd-length span that belongs to no unit is ignored (the
\* first byte when it is zero, the last byte otherwise).
C13_ToUTF8Total ==
    out.fn = "lib.ToUTF8" =>
        /\ pc = "lib.return"
        /\ out.enc.Title = "UTF-16" =>
              LET start == IF Len(file) % 2 = 1 /\ file[1] = 0 THEN 1 ELSE 0
              IN  out.result = UnitsLE(file, start, Len(file) \div 2)

\* An odd-length span with a complete unit has been decoded as UTF-16.
C13_Witness ==
    /\ out.fn = "lib.ToUTF8"
    /\ out.enc.Title = "UTF-16"
    /\ Len(file) = 3
    /\ file[3] = 216
    /\ out.result = <<65>>

\* C14: for the descriptor "UTF-16BE" lib.ToUTF8 decodes the span two bytes at a time,
\* the first byte of each pair the high-order one: 00 41 00 42 gives "AB".
C14_BigEndianPairs ==
    ( /\ out.fn = "lib.ToUTF8"
      /\ out.enc.Title = "UTF-16BE"
      /\ pc = "lib.return"
      /\ Len(file) % 2 = 0 ) =>
        /\ out.result = UnitsBE(file, 0, Len(file) \div 2)
        /\ file = <<0, 65, 0, 66>> => out.result = <<65, 66>>

----------------------------------------------------------------------------
(* Properties of the documented frame bodies (SpecParse).                  *)

\* C11: a Text-Information frame whose body is the encoding byte 1 followed by
\* FF FE 41 00 42 00 decodes to the two-character string "AB": the byte-order mark is
\* consumed and contributes no character.
C11_ByteOrderMarkConsumed ==
    \A edition \in Editions :
        ( /\ PastFirstFrame(edition)
          /\ DeclaredType(edition, FirstFrameID(edition)) = "TypeTextInformation"
          /\ FirstFrameBody(edition) = <<1, 255, 254, 65, 0, 66, 0>> ) =>
            /\ pc # "panic"
            /\ Len(frames) >= 1
            /\ frames[1].kind = "TextInformationFrame"
            /\ frames[1].text = <<65, 66>>

\* The first frame is a comments frame, decoded, with the given body.
CommentsDecoded(edition, body) ==
    /\ PastFirstFrame(edition)
    /\ DeclaredType(edition, FirstFrameID(edition)) = "TypeComments"
    /\ FirstFrameBody(edition) = body

\* C12 as stated: the Comments body 00 65 6E 67 00 68 69 00 62 79 65 decodes to
\* language "eng", short description "hi" and text "bye".
C12_CommentsExample ==
    \A edition \in {2, 3} :
        CommentsDecoded(edition, <<0, 101, 110, 103, 0, 104, 105, 0, 98, 121, 101>>) =>
            /\ pc # "panic"
            /\ Len(frames) >= 1
            /\ frames[1].kind = "CommentsFrame"
            /\ frames[1].language = <<101, 110, 103>>
            /\ frames[1].description = <<104, 105>>
            /\ frames[1].text = <<98, 121, 101>>

\* C12 amended: the description starts right after the three language bytes, so the
\* body 00 65 6E 67 68 69 00 62 79 65 decodes to language "eng", description "hi" and
\* text "bye", and the body 00 65 6E 67 00 68 69 00 62 79 65, whose byte 4 is already
\* the terminator, to language "eng", the empty description and the text
\* 68 69 00 62 79 65.
C12_CommentsSplitAfterLanguage ==
    \A edition \in {2, 3} :
        /\ CommentsDecoded(edition, <<0, 101, 110, 103, 104, 105, 0, 98, 121, 101>>) =>
              /\ pc # "panic"
              /\ Len(frames) >= 1
              /\ frames[1].kind = "CommentsFrame"
              /\ frames[1].language = <<101, 110, 103>>
              /\ frames[1].description = <<104, 105>>
              /\ frames[1].text = <<98, 121, 101>>
        /\ CommentsDecoded(edition, <<0, 101, 110, 103, 0, 104, 105, 0, 98, 121, 101>>) =>
              /\ pc # "panic"
              /\ Len(frames) >= 1
              /\ frames[1].kind = "CommentsFrame"
              /\ frames[1].language = <<101, 110, 103>>
              /\ frames[1].description = <<>>
              /\ frames[1].text = <<104, 105, 0, 98, 121, 101>>

\* v23.New has returned a tag whose comments frame came from the 10-byte body.
C12_Witness ==
    /\ CommentsDecoded(3, <<0, 101, 110, 103, 104, 105, 0, 98, 121, 101>>)
    /\ Succeeded(3)
    /\ Len(ret.tag.frames) = 1

\* The characters of a description given as bytes in the encoding of selector e.
DescriptionText(e, description) ==
    CASE e = 0 -> Latin1(description)
      [] e = 1 -> UnitsLE(description, 0, Len(description) \div 2)
      [] e = 2 -> UnitsBE(description, 0, Len(description) \div 2)
      [] OTHER -> description

\* C15: in v2.3 and v2.4 every attached-picture body laid out as encoding byte, MIME
\* bytes without zero, 00, picture-type byte, description in the encoding, terminator
\* as wide as the encoding's unit, payload, decodes to that MIME string, picture type
\* and description, and to picture data equal to the payload byte for byte, for 1-byte
\* and 2-byte encodings and for descriptions whose units contain a zero byte.
C15_AttachedPictureFields ==
    \A edition \in {3, 4}, e \in 0..3, mime \in {<<>>, <<105>>}, payload \in Payloads :
        \A description \in Descriptions(e) :
            ( /\ PastFirstFrame(edition)
              /\ DeclaredType(edition, FirstFrameID(edition)) = "TypeAttachedPicture"
              /\ FirstFrameBody(edition) = PictureBody(e, mime, 3, description, payload) ) =>
                /\ pc # "panic"
                /\ Len(frames) >= 1
                /\ frames[1].kind = "AttachedPictureFrame"
                /\ frames[1].mimeType = mime
                /\ frames[1].pictureType = 3
                /\ frames[1].description = DescriptionText(e, description)
                /\ frames[1].pictureData = payload

----------------------------------------------------------------------------
(* Properties of the frame sequence (SpecParse).                           *)

\* The identifier and declared size of the frames that lie in file from offset pos on,
\* used bytes of a frame area of area bytes being consumed: a frame header (bytes past
\* the end of the file count as zero) and as many body bytes as it declares, one
\* frame after the other, up to the end of the area or the first header that does not
\* start with an identifier.
RECURSIVE DiskFrames(_, _, _, _)
DiskFrames(edition, pos, used, area) ==
    LET width == IF edition = 2 THEN 3 ELSE 4
        header == [i \in 1..FrameHeaderSize(edition) |->
                        IF pos + i <= Len(file) THEN file[pos + i] ELSE 0]
        size == ByteToInt(SubSeq(header, width + 1, 2 * width))
        got == Min(FrameHeaderSize(edition) + size, Len(file) - pos)
    IN  IF used >= area \/ pos >= Len(file) \/ ~MatchFrameID(SubSeq(header, 1, width))
        THEN <<>>
        ELSE <<[id |-> SubSeq(header, 1, width), size |-> size]>>
                \o DiskFrames(edition, pos + got, used + got, area)

\* The k-th smallest element of the set P of numbers.
Kth(P, k) == CHOOSE i \in P : Cardinality({j \in P : j < i}) = k - 1

\* C16: after a successful parse the tag's frame sequence holds exactly one frame per
\* frame read from the source, in on-disk order, repeated identifiers kept as separate
\* entries; Frames() without arguments returns that sequence, and Frames(id) the
\* frames with that identifier in the same relative order.
C16_FramesInDiskOrder ==
    \A edition \in Editions :
        Succeeded(edition) =>
            LET disk == DiskFrames(edition, 10, 0, ByteToInt(SubSeq(file, 7, 10)))
                frs == ret.tag.frames
                P == IF out.fn = "Frames" /\ Len(out.ids) = 1
                     THEN {i \in 1..Len(frs) : frs[i].base.id = out.ids[1]} ELSE {}
            IN  /\ Len(frs) = Len(disk)
                /\ \A i \in 1..Len(frs) :
                      frs[i].base.id = disk[i].id /\ frs[i].base.size = disk[i].size
                /\ (out.fn = "Frames" /\ out.ids = <<>>) => out.result = frs
                /\ (out.fn = "Frames" /\ Len(out.ids) = 1) =>
                      /\ Len(out.result) = Cardinality(P)
                      /\ \A k \in 1..Len(out.result) : out.result[k] = frs[Kth(P, k)]

\* Frames(id) has returned two frames of a tag read from three, the other identifier
\* between them.
C16_Witness ==
    \E edition \in Editions :
        /\ Succeeded(edition)
        /\ Len(ret.tag.frames) = 3
        /\ ret.tag.frames[2].base.id = UndeclaredID(edition)
        /\ out.fn = "Frames"
        /\ out.ids = <<TitleID(edition)>>
        /\ Len(out.result) = 2

\* The semantic types the edition's switch has a case for.
Decoders(edition) ==
    CASE edition = 2 ->
            {"TypeTextInformation", "TypeURLLink", "TypeAttachedPicture",
             "TypeUnsychronisedLyricsOrTextTranscription", "TypeComments",
             "TypeiTunesCompilationFlag"}
      [] edition = 3 ->
            {"TypeTextInformation", "TypeUserDefinedTextInformation",
             "TypeUserDefinedURLLink", "TypeURLLink", "TypeAttachedPicture",
             "TypeUnsychronisedLyricsOrTextTranscription", "TypeComments", "TypeTermOfUse"}
      [] OTHER ->
            {"TypeTextInformation", "TypeUserDefinedTextInformation", "TypeURLLink",
             "TypeAttachedPicture", "TypeUnsychronisedLyricsOrTextTranscription",
             "TypeComments", "TypeTermOfUse", "TypePopularimeter"}

\* The loop of the edition is about to read, at off, a frame that lies in the source
\* in full and whose identifier is undeclared or declared with a type the edition
\* does not decode.
AtOpaqueFrame(edition) ==
    LET width == IF edition = 2 THEN 3 ELSE 4
        fh == FrameHeaderSize(edition)
    IN  /\ pc = LoopPC(edition)
        /\ t < framesSize
        /\ off + fh <= Len(file)
        /\ MatchFrameID(SubSeq(file, off + 1, off + width))
        /\ DeclaredType(edition, SubSeq(file, off + 1, off + width)) \notin Decoders(edition)
        /\ off + fh + ByteToInt(SubSeq(file, off + width + 1, off + 2 * width)) <= Len(file)

\* C17: a frame whose identifier is absent from the edition's declared-frame table, or
\* whose declared type has no decoder in the edition, is appended as an Unknown frame
\* whose data is the raw body byte for byte and whose size is the declared body
\* length, and the loop goes on to the next frame.
C17_OpaqueFrameKept ==
    [][ \A edition \in Editions :
            AtOpaqueFrame(edition) =>
                LET width == IF edition = 2 THEN 3 ELSE 4
                    size == ByteToInt(SubSeq(file, off + width + 1, off + 2 * width))
                    start == off + FrameHeaderSize(edition)
                    n == Len(frames)
                IN  /\ pc' = LoopPC(edition)
                    /\ off' = start + size
                    /\ Len(frames') = n + 1
                    /\ SubSeq(frames', 1, n) = frames
                    /\ frames'[n + 1].kind = "UnknownFrame"
                    /\ frames'[n + 1].base.id = SubSeq(file, off + 1, off + width)
                    /\ frames'[n + 1].base.size = size
                    /\ frames'[n + 1].data = SubSeq(file, start + 1, start + size) ]_vars

\* A parser has kept a frame of a declared type it does not decode, body and all, and
\* has read the frame after it.
C17_Witness ==
    \E edition \in Editions :
        /\ pc = LoopPC(edition)
        /\ Len(frames) = 2
        /\ frames[1].kind = "UnknownFrame"
        /\ DeclaredType(edition, frames[1].base.id) # "undeclared"
        /\ frames[1].data = <<0, 65, 0>>
        /\ frames[2].kind = "TextInformationFrame"

----------------------------------------------------------------------------
(* Properties of the editions' field accessors (SpecFields).               *)

\* The parts joined with "/" between them.
RECURSIVE Join(_)
Join(parts) ==
    IF Len(parts) = 1 THEN parts[1] ELSE parts[1] \o <<47>> \o Join(Tail(parts))

Count(s, c) == Cardinality({i \in 1..Len(s) : s[i] = c})

\* values is, text after text, the parts of each text between its "/" bytes.
RECURSIVE SplitsInto(_, _)
SplitsInto(values, texts) ==
    IF texts = <<>> THEN values = <<>>
    ELSE LET n == Count(Head(texts), 47) + 1
         IN  /\ Len(values) >= n
             /\ \A k \in 1..n : Count(values[k], 47) = 0
             /\ Join(SubSeq(values, 1, n)) = Head(texts)
             /\ SplitsInto(SubSeq(values, n + 1, Len(values)), Tail(texts))

\* The texts of the Text-Information frames of frs that carry id, in order.
TextsOf(frs, id) ==
    LET P == {i \in 1..Len(frs) : frs[i].base.id = id /\ frs[i].kind = "TextInformationFrame"}
    IN  [k \in 1..Cardinality(P) |-> frs[Kth(P, k)].text]

\* C18: Artists and AlbumArtists of every edition return, over all frames with the
\* field's identifier in on-disk order, the concatenation of each Text-Information
\* value split on "/", duplicates and order kept; other frames contribute nothing.
C18_MultiValuedFlattened ==
    \A fn \in {"Artists", "AlbumArtists"} :
        out.fn = fn =>
            SplitsInto(out.result, TextsOf(ret.tag.frames, IDs(out.edition)[fn]))

\* Artists has returned "A", "B", "A" for the frames "A/B" and "A".
C18_Witness ==
    /\ out.fn = "Artists"
    /\ Len(ret.tag.frames) = 2
    /\ ret.tag.frames[1].text = <<65, 47, 66>>
    /\ out.result = << <<65>>, <<66>>, <<65>> >>

\* The track and position each track text stands for: "3/12", "3", "", "3/", "/12",
\* "x/12", "3/x", "3x", "3/12/5", "03/012".
ExpectedTrack ==
    (<<51,47,49,50>> :> <<3, 12>>) @@ (<<51>> :> <<3, 0>>) @@ (<<>> :> <<0, 0>>)
        @@ (<<51,47>> :> <<3, 0>>) @@ (<<47,49,50>> :> <<0, 12>>)
        @@ (<<120,47,49,50>> :> <<0, 12>>) @@ (<<51,47,120>> :> <<3, 0>>)
        @@ (<<51,120>> :> <<0, 0>>) @@ (<<51,47,49,50,47,53>> :> <<3, 12>>)
        @@ (<<48,51,47,48,49,50>> :> <<3, 12>>)

\* C19: TrackNumberAndPosition of every framed edition splits the text of the first
\* track frame on "/" into (track, position): "3/12" gives (3, 12), "3" gives (3, 0),
\* and a missing frame, a missing part or a non-numeric part gives 0 for that part.
C19_TrackAndPosition ==
    out.fn = "TrackNumberAndPosition" =>
        LET texts == TextsOf(ret.tag.frames, IDs(out.edition).Track)
        IN  /\ texts = <<>> => out.result = <<0, 0>>
            /\ texts # <<>> =>
                  /\ texts[1] \in DOMAIN ExpectedTrack
                  /\ out.result = ExpectedTrack[texts[1]]

\* The track frame "3/12/5" has been read as (3, 12).
C19_Witness ==
    /\ out.fn = "TrackNumberAndPosition"
    /\ Len(ret.tag.frames) >= 1
    /\ ret.tag.frames[1].text = <<51,47,49,50,47,53>>
    /\ ret.tag.frames[1].base.id = IDs(out.edition).Track
    /\ out.result = <<3, 12>>

\* Free texts without a parenthesised number that are no number: "Rock", "Ro(l)".
FreeTexts == { <<82,111,99,107>>, <<82,111,40,108,41>> }

\* C20: in each of the three framed editions a genre frame whose text is free text,
\* without digits in parentheses and not a bare number (e.g. "Rock"), makes Genres
\* return that text verbatim as a single genre, without error or crash.
C20_FreeTextGenre ==
    \A edition \in Editions :
        ( /\ out.fn = "Genres"
          /\ out.edition = edition
          /\ Len(ret.tag.frames) = 1
          /\ ret.tag.frames[1].base.id = IDs(edition).Genres
          /\ ret.tag.frames[1].text \in FreeTexts ) =>
            /\ ~out.result.panic
            /\ out.result.value = <<ret.tag.frames[1].text>>

\* Genres of the edition has been called on a tag whose only frame is a genre frame
\* with the given text.
GenresCalledOn(edition, text) ==
    /\ out.fn = "Genres"
    /\ out.edition = edition
    /\ Len(ret.tag.frames) = 1
    /\ ret.tag.frames[1].base.id = IDs(edition).Genres
    /\ ret.tag.frames[1].text = text

\* What parenthesised references followed by free text stand for: "(13)" the entry 13,
\* "(13)(4)" the entries 13 and 4, "(13)Pop" the entry 13 and "Pop", "(13)(4)Pop" the
\* entries 13 and 4 and "Pop"; and the bare number "13" the entry 13.
ExpectedGenres ==
    (<<40,49,51,41>> :> <<Genres[13]>>)
        @@ (<<40,49,51,41,40,52,41>> :> <<Genres[13], Genres[4]>>)
        @@ (<<40,49,51,41,80,111,112>> :> <<Genres[13], <<80,111,112>>>>)
        @@ (<<40,49,51,41,40,52,41,80,111,112>> :> <<Genres[13], Genres[4], <<80,111,112>>>>)
        @@ (<<49,51>> :> <<Genres[13]>>)

\* C21: for a genre text of one or more parenthesised numbers optionally followed by
\* free text, Genres of v2.3 and v2.4 resolves every group to the legacy table entry
\* at its index, in order, and then appends the trailing free text as one literal
\* genre; a bare number resolves to the table entry at that index.
C21_GroupsThenFreeText ==
    \A edition \in {3, 4} : \A text \in DOMAIN ExpectedGenres :
        GenresCalledOn(edition, text) =>
            /\ ~out.result.panic
            /\ out.result.value = ExpectedGenres[text]

\* C22: in v2.2 a genre frame with the text "(13)Pop" makes Genres return exactly one
\* entry, the legacy table entry at index 13, and no literal segment.
C22_RefinedGenreIsEntry ==
    GenresCalledOn(2, <<40,49,51,41,80,111,112>>) =>
        /\ ~out.result.panic
        /\ out.result.value = <<Genres[13]>>

\* C23: in v2.2 a genre frame with the text "Miscellaneous(31)Ska" makes Genres return
\* exactly two genre entries, without error or crash.
C23_PrefixedGenreGivesTwo ==
    GenresCalledOn(2, <<77,105,115,99,101,108,108,97,110,101,111,117,115,40,51,49,41,83,107,97>>) =>
        /\ ~out.result.panic
        /\ Len(out.result.value) = 2

----------------------------------------------------------------------------
(* Properties of writing and re-reading the fixed-layout tag (SpecWrite).  *)

\* The first width bytes of s.
Truncated(s, width) == SubSeq(s, 1, Min(width, Len(s)))

\* C24: for every fixed-layout tag value (texts without zero bytes, genre index
\* 0..255, version 1.0 or 1.1) and every file of at least 128 bytes, Tag.Write
\* succeeds and v1.New on the same file then returns a tag whose title, artist,
\* album, year, comment and genre index are the written ones, each text cut to its
\* width: 30, 30, 30, 4, and 30 (version 1.0) or 28 (version 1.1) for the comment.
C24_WriteThenRead ==
    /\ pc = "v1.failed" => t < TagSize
    /\ pc = "v1.reread" =>
          LET written == id3.V1
              read == ret.tag
          IN  /\ ret.err = NilErr
              /\ read.title = Truncated(written.title, 30)
              /\ read.artist = Truncated(written.artist, 30)
              /\ read.album = Truncated(written.album, 30)
              /\ read.year = Truncated(written.year, 4)
              /\ read.comment = Truncated(written.comment,
                                          IF written.version = "ID3v1.1" THEN 28 ELSE 30)
              /\ read.genreIndex = written.genreIndex

----------------------------------------------------------------------------
(* Properties of the frame loop (SpecParse).                                *)

\* The identifier the loop of the edition reads at off: the bytes of the source, zero
\* where the source has ended.
IdentifierAtOff(edition) ==
    [i \in 1..(IF edition = 2 THEN 3 ELSE 4) |->
        IF off + i <= Len(file) THEN file[off + i] ELSE 0]

\* A byte is an uppercase letter or a digit.
UpperOrDigit(b) == (48 <= b /\ b <= 57) \/ (65 <= b /\ b <= 90)

\* The loop of the edition is about to read a frame header, the source has bytes
\* left, and the identifier read has a byte that is no uppercase letter and no digit.
AtBadIdentifier(edition) ==
    /\ pc = LoopPC(edition)
    /\ t < framesSize
    /\ off < Len(file)
    /\ \E i \in DOMAIN IdentifierAtOff(edition) : ~UpperOrDigit(IdentifierAtOff(edition)[i])

\* C25: in the frame loop of v22.New, v23.New and v24.New, a frame header whose
\* identifier is not made of uppercase letters and digits only ends the parse: with a
\* zero first byte (all zero bytes included) the loop stops and the parser returns the
\* tag with the frames decoded so far and no error; with a non-zero first byte the
\* parser returns an error and no tag.
C25_BadIdentifierEndsLoop ==
    [][ \A edition \in Editions :
            AtBadIdentifier(edition) =>
                /\ pc' = ReturnPC(edition)
                /\ IF IdentifierAtOff(edition)[1] = 0
                   THEN /\ ret'.err = NilErr
                        /\ ret'.tag # Nil
                        /\ ret'.tag.frames = frames
                   ELSE /\ ret'.tag = Nil
                        /\ ret'.err # NilErr ]_vars

\* A parser has returned a tag of one frame after reading, behind that frame and
\* within the declared area, a header that starts with a zero byte followed by a letter.
C25_Witness ==
    \E edition \in Editions :
        LET fh == FrameHeaderSize(edition)
        IN  /\ Succeeded(edition)
            /\ Len(ret.tag.frames) = 1
            /\ t = Extent(frames, 1, fh) + fh
            /\ t - fh < framesSize
            /\ off = 10 + t
            /\ off <= Len(file)
            /\ file[off - fh + 1] = 0
            /\ file[off - fh + 2] = 65

\* Bit k (7 the highest) of the byte b is set, by its binary digits.
BitSet(b, k) == (b \div (2 ^ k)) % 2 = 1

\* The header fields of a returned tag, under the names of the edition's Tag struct.
HeaderFields(edition, tag) ==
    IF edition = 4
    THEN [size |-> tag.Size, unsynchronisation |-> tag.UnsynchronisationFlag,
          bit6 |-> tag.ExtendedHeaderFlag, experimental |-> tag.ExperimentalIndicatorFlag,
          footer |-> tag.FooterPresentFlag]
    ELSE IF edition = 3
    THEN [size |-> tag.size, unsynchronisation |-> tag.flagUnsynchronisation,
          bit6 |-> tag.flagExtendedHeader, experimental |-> tag.flagExperimentalIndicator]
    ELSE [size |-> tag.size, unsynchronisation |-> tag.flagUnsynchronisation,
          bit6 |-> tag.flagCompression]

\* The fields of the tag the parser of the edition returned are those of the header.
HeaderFieldsRecorded(edition) ==
    LET fields == HeaderFields(edition, ret.tag)
    IN  /\ fields.size = ((file[7] * 256 + file[8]) * 256 + file[9]) * 256 + file[10]
        /\ fields.unsynchronisation = BitSet(file[6], 7)
        /\ fields.bit6 = BitSet(file[6], 6)
        /\ edition \in {3, 4} => fields.experimental = BitSet(file[6], 5)
        /\ edition = 4 => fields.footer = BitSet(file[6], 4)

\* C26: every tag returned by v22.New, v23.New and v24.New records the frame-area
\* length declared in header bytes 6..9, and each header flag the edition's Tag has is
\* true exactly when its bit of header byte 5 is set: bit 7 unsynchronisation, bit 6
\* compression (v2.2) or extended header (v2.3, v2.4), bit 5 experimental indicator
\* (v2.3, v2.4), bit 4 footer present (v2.4).
C26_HeaderFieldsRecorded ==
    \A edition \in Editions : Succeeded(edition) => HeaderFieldsRecorded(edition)

\* The same for the editions whose parser assigns the fields (v2.3 and v2.4).
HeaderFieldsRecordedByV23V24 ==
    \A edition \in {3, 4} : Succeeded(edition) => HeaderFieldsRecorded(edition)

\* v22.New returns a tag whose size is zero although the header declares a non-empty
\* frame area.
V22SizeNotRecorded ==
    /\ Succeeded(2)
    /\ file[10] > 0
    /\ ret.tag.size = 0

\* The parser of the edition is in or past its loop on a source that opens with the
\* edition's header.
InFrameArea(edition) ==
    /\ calls = <<ParserName(edition)>>
    /\ HeaderMatches(edition)
    /\ pc \in {LoopPC(edition), ReturnPC(edition)}

\* C27: the parsers read the frame-area size from header bytes 6..9 as
\* b6*2^24 + b7*2^16 + b8*2^8 + b9 with all 8 bits of each byte, and the body size of
\* a frame from the 3 bytes (v2.2) or 4 bytes (v2.3, v2.4) after the identifier in the
\* same way.
C27_PlainBigEndianSizes ==
    \A edition \in Editions :
        /\ (InFrameArea(edition) /\ pc = LoopPC(edition)) =>
               framesSize = file[7] * 2^24 + file[8] * 2^16 + file[9] * 2^8 + file[10]
        /\ (InFrameArea(edition) /\ Len(frames) >= 1
                /\ Len(file) >= 10 + FrameHeaderSize(edition)) =>
               frames[1].base.size =
                   IF edition = 2
                   THEN file[14] * 2^16 + file[15] * 2^8 + file[16]
                   ELSE file[15] * 2^24 + file[16] * 2^16 + file[17] * 2^8 + file[18]

\* A parser has read a frame area of 268 bytes for the header bytes 00 00 01 0C and a
\* frame of size 258 for the size bytes 00 00 01 02.
C27_Witness ==
    \E edition \in {3, 4} :
        /\ InFrameArea(edition)
        /\ SubSeq(file, 7, 10) = <<0, 0, 1, 12>>
        /\ framesSize = 268
        /\ Len(frames) = 1
        /\ file[18] = 2
        /\ frames[1].base.size = 258

\* The parser call has returned (a tag or an error).
Returned == \E edition \in Editions : pc = ReturnPC(edition)

\* A step is a loop iteration that stays in the loop.
StaysInLoop(edition) == pc = LoopPC(edition) /\ pc' = LoopPC(edition)

\* C28: on every finite source each call of v22.New, v23.New and v24.New terminates by
\* returning a tag or an error, and every loop iteration that does not leave the loop
\* adds at least the frame-header size to the counter t of consumed bytes.
C28_ParserTerminates ==
    /\ <>Returned
    /\ [][ \A edition \in Editions :
               StaysInLoop(edition) => t' >= t + FrameHeaderSize(edition) ]_vars

\* Every call ends, by a return or by a panic of a decoder, and every iteration that
\* stays in the loop adds at least one byte to t.
ParserEnds ==
    /\ <>(Returned \/ pc = "panic")
    /\ [][ \A edition \in Editions : StaysInLoop(edition) => t' >= t + 1 ]_vars

\* A loop has gone on after a header read that the end of the source cut short.
ShortHeaderConsumed ==
    \E edition \in Editions :
        /\ pc = LoopPC(edition)
        /\ Len(frames) >= 1
        /\ off = Len(file)
        /\ t < Len(frames) * FrameHeaderSize(edition)

\* Every read of the call so far was a full one: the tag header and the header and
\* declared body of every frame appended lie within the source.
FullReads(edition) ==
    10 + Extent(frames, Len(frames), FrameHeaderSize(edition)) <= Len(file)

\* C29: when every read is a full one, at the start of each loop iteration of
\* v22.New, v23.New and v24.New the counter t is the sum, over the frames appended so
\* far, of the frame header size and the declared body size, and the source position
\* is 10 + t; and an iteration reads a frame header only while t is less than the
\* declared frame-area size.
C29_CounterTracksFrames ==
    [][ \A edition \in Editions :
            (pc = LoopPC(edition) /\ calls = <<ParserName(edition)>>) =>
                /\ FullReads(edition) =>
                       /\ t = Extent(frames, Len(frames), FrameHeaderSize(edition))
                       /\ off = 10 + t
                /\ off' # off => t < framesSize ]_vars

\* A parser stands at the start of its third iteration, with two frames appended from
\* full reads and a third within the declared area.
C29_Witness ==
    \E edition \in Editions :
        /\ pc = LoopPC(edition)
        /\ calls = <<ParserName(edition)>>
        /\ Len(frames) = 2
        /\ FullReads(edition)
        /\ t = 2 * (FrameHeaderSize(edition) + 2)
        /\ off = 10 + t
        /\ t < framesSize
        /\ off < Len(file)

----------------------------------------------------------------------------
(* One framed edition per source (Spec).                                    *)

\* id3.New has returned a Tag and a nil error.
NewSucceeded == pc = "done" /\ result.returned /\ result.err = NilErr /\ result.tag # Nil

\* The framed editions whose tag is present in the Tag id3.New returned.
PresentEditions ==
    {e \in Editions : <<result.tag.V22, result.tag.V23, result.tag.V24>>[e - 1] # Nil}

\* C30: after a successful id3.New at most one of V22, V23 and V24 is present, and the
\* one present is the edition named by the edition byte (offset 3) of the header at
\* offset 0 of the source.
C30_AtMostOneFramedEdition ==
    NewSucceeded =>
        /\ Cardinality(PresentEditions) <= 1
        /\ \A e \in PresentEditions : Len(file) >= 10 /\ file[4] = e

\* id3.New has succeeded on a source with a v2.4 tag at offset 0 and a v1 block at
\* the end: V1 and V24 are present, V22 and V23 are not.
C30_Witness ==
    /\ NewSucceeded
    /\ calls = <<"v1", "v22", "v23", "v24">>
    /\ result.tag.V1 # Nil
    /\ result.tag.V24 # Nil
    /\ Len(result.tag.V24.frames) >= 1
    /\ result.tag.V22 = Nil
    /\ result.tag.V23 = Nil

====
